---------------------------- MODULE Spec2Model ----------------------------
(***************************************************************************)
(* A model of logseq-mcp-server: the zod input schemas, the LogseqClient   *)
(* HTTP call with its abort timer, the seventeen tool handlers and the     *)
(* formatters.                                                             *)
(*                                                                         *)
(* JSON values are records tagged by their only field:                     *)
(*   [num |-> n, half |-> b]  the number n (+ 0.5 when b)                  *)
(*   [str |-> s]   [bool |-> b]   [null |-> TRUE]                          *)
(*   [arr |-> <<v1, ..., vn>>]    [obj |-> [key |-> value, ...]]           *)
(* The raw parameter object of an invocation is the function of its keys.  *)
(***************************************************************************)
EXTENDS Integers, Sequences, FiniteSets, TLC

\* ------------------------------------------------------------ JSON values

Num(n) == [num |-> n, half |-> FALSE]
NumHalf(n) == [num |-> n, half |-> TRUE]
Str(s) == [str |-> s]
Bool(b) == [bool |-> b]
JNull == [null |-> TRUE]
Arr(items) == [arr |-> items]
Obj(f) == [obj |-> f]
EmptyObj == [obj |-> <<>>]

IsNum(v) == "num" \in DOMAIN v
IsStr(v) == "str" \in DOMAIN v
IsBool(v) == "bool" \in DOMAIN v
IsNull(v) == "null" \in DOMAIN v
IsArr(v) == "arr" \in DOMAIN v
IsObj(v) == "obj" \in DOMAIN v

Undef == [undef |-> TRUE]
IsUndef(v) == "undef" \in DOMAIN v

\* o.k of JavaScript: undefined when o has no such own key.
Get(o, k) == IF IsObj(o) /\ k \in DOMAIN o.obj THEN o.obj[k] ELSE Undef

\* JavaScript truthiness.
Truthy(v) ==
    CASE IsUndef(v) \/ IsNull(v) -> FALSE
      [] IsBool(v) -> v.bool
      [] IsStr(v) -> v.str # ""
      [] IsNum(v) -> v.num # 0 \/ v.half
      [] OTHER -> TRUE

\* ----------------------------------------------------------------- strings

RECURSIVE Repeat(_, _)
\* s.repeat(n)
Repeat(s, n) ==
    IF n <= 0 THEN ""
    ELSE IF n % 2 = 0 THEN LET h == Repeat(s, n \div 2) IN h \o h
    ELSE s \o Repeat(s, n - 1)

RECURSIVE Join(_, _)
\* lines.join(sep)
Join(lines, sep) ==
    IF Len(lines) = 0 THEN ""
    ELSE IF Len(lines) = 1 THEN lines[1]
    ELSE lines[1] \o sep \o Join(Tail(lines), sep)

CharAt(s, k) == SubSeq(s, k, k)
IsSpace(c) == c \in {" ", "\n", "\t", "\r"}

RECURSIVE TrimStart(_)
TrimStart(s) ==
    IF Len(s) > 0 /\ IsSpace(CharAt(s, 1))
    THEN TrimStart(SubSeq(s, 2, Len(s))) ELSE s

RECURSIVE TrimEnd(_)
TrimEnd(s) ==
    IF Len(s) > 0 /\ IsSpace(CharAt(s, Len(s)))
    THEN TrimEnd(SubSeq(s, 1, Len(s) - 1)) ELSE s

\* s.trim()
Trim(s) == TrimEnd(TrimStart(s))

UpperLetters == "ABCDEFGHIJKLMNOPQRSTUVWXYZ"
LowerLetters == "abcdefghijklmnopqrstuvwxyz"

LowerChar(c) ==
    IF \E k \in 1..Len(UpperLetters) : CharAt(UpperLetters, k) = c
    THEN CharAt(LowerLetters, CHOOSE k \in 1..Len(UpperLetters) : CharAt(UpperLetters, k) = c)
    ELSE c

RECURSIVE ToLowerCase(_)
\* s.toLowerCase()
ToLowerCase(s) ==
    IF Len(s) = 0 THEN "" ELSE LowerChar(CharAt(s, 1)) \o ToLowerCase(SubSeq(s, 2, Len(s)))

\* s.startsWith(prefix)
StartsWith(s, prefix) ==
    Len(s) >= Len(prefix) /\ SubSeq(s, 1, Len(prefix)) = prefix

\* s.includes(part)
Includes(s, part) ==
    \E k \in 1..(Len(s) - Len(part) + 1) : SubSeq(s, k, k + Len(part) - 1) = part

RECURSIVE StripTrailingSlashes(_)
\* s.replace(/\/+$/, "")
StripTrailingSlashes(s) ==
    IF Len(s) > 0 /\ CharAt(s, Len(s)) = "/"
    THEN StripTrailingSlashes(SubSeq(s, 1, Len(s) - 1)) ELSE s

NumberToString(v) == ToString(v.num) \o (IF v.half THEN ".5" ELSE "")

\* `${v}` of a template literal, for the values the handlers interpolate.
ToStr(v) ==
    CASE IsStr(v) -> v.str
      [] IsNum(v) -> NumberToString(v)
      [] IsBool(v) -> IF v.bool THEN "true" ELSE "false"
      [] IsNull(v) -> "null"
      [] IsUndef(v) -> "undefined"
      [] OTHER -> "[object Object]"

\* The order in which the keys of an object are serialised (JavaScript keeps
\* insertion order; the remote sends its entities with their keys in this order).
KeyOrder ==
    <<"id", "uuid", "name", "originalName", "journal?", "namespace", "content",
      "properties", "children", "format", "blocks", "pages", "path", "url",
      "status", "priority", "tags">>

KeysOf(f) == SelectSeq(KeyOrder, LAMBDA k : k \in DOMAIN f)

RECURSIVE Stringify(_, _)
\* JSON.stringify(v, null, 2), at indentation ind.  The strings of the model
\* hold no character that JSON escapes.
Stringify(v, ind) ==
    CASE IsNull(v) -> "null"
      [] IsBool(v) -> IF v.bool THEN "true" ELSE "false"
      [] IsNum(v) -> NumberToString(v)
      [] IsStr(v) -> "\"" \o v.str \o "\""
      [] IsArr(v) ->
            IF Len(v.arr) = 0 THEN "[]"
            ELSE "[\n"
                 \o Join([k \in DOMAIN v.arr |->
                            Repeat(" ", ind + 2) \o Stringify(v.arr[k], ind + 2)], ",\n")
                 \o "\n" \o Repeat(" ", ind) \o "]"
      [] IsObj(v) ->
            LET keys == KeysOf(v.obj)
            IN  IF Len(keys) = 0 THEN "{}"
                ELSE "{\n"
                     \o Join([k \in DOMAIN keys |->
                                Repeat(" ", ind + 2) \o "\"" \o keys[k] \o "\": "
                                \o Stringify(v.obj[keys[k]], ind + 2)], ",\n")
                     \o "\n" \o Repeat(" ", ind) \o "}"

\* ---------------------------------------------------------------- constants

CHARACTER_LIMIT == 100000
DEFAULT_PAGE_LIMIT == 50
REQUEST_TIMEOUT_MS == 30000

\* ------------------------------------------------------- zod schema algebra
\* A schema is a record with a "type"; an object schema's shape maps each key
\* to [mode, schema, dflt] with mode "required", "optional" or "default".

ZNumber(isInt, hasMin, min, hasMax, max) ==
    [type |-> "number", int |-> isInt, hasMin |-> hasMin, min |-> min,
     hasMax |-> hasMax, max |-> max]
ZString(min, hasMax, max) ==
    [type |-> "string", min |-> min, hasMax |-> hasMax, max |-> max]
ZBoolean == [type |-> "boolean"]
ZUnknown == [type |-> "unknown"]
ZRecordUnknown == [type |-> "record"]
ZEnum(values) == [type |-> "enum", values |-> values]
ZArray(elem, minLen) == [type |-> "array", elem |-> elem, minLen |-> minLen]
ZObject(shape, strict) == [type |-> "object", shape |-> shape, strict |-> strict]

Required(s) == [mode |-> "required", schema |-> s, dflt |-> JNull]
Optional(s) == [mode |-> "optional", schema |-> s, dflt |-> JNull]
Default(s, d) == [mode |-> "default", schema |-> s, dflt |-> d]

Bad == [ok |-> FALSE, value |-> JNull]
Good(v) == [ok |-> TRUE, value |-> v]

\* z.number() that forgets .max(M).
NumberOkNoMax(s, v) ==
    /\ IsNum(v)
    /\ s.int => ~v.half
    /\ s.hasMin => v.num >= s.min

\* z.number(): a JSON number; .int(), .min(m), .max(M) on n (+ 0.5).
NumberOk(s, v) ==
    /\ IsNum(v)
    /\ s.int => ~v.half
    /\ s.hasMin => v.num >= s.min
    /\ s.hasMax => (v.num < s.max \/ (v.num = s.max /\ ~v.half))

\* z.string(): .min(m), .max(M) on the length.
StringOk(s, v) ==
    /\ IsStr(v)
    /\ Len(v.str) >= s.min
    /\ s.hasMax => Len(v.str) <= s.max

RECURSIVE ZParse(_, _)
\* zod's parse of value v (a defined value) by schema s: [ok, value].  An
\* object that is not strict strips the keys its shape does not name.
ZParse(s, v) ==
    CASE s.type = "number" -> IF NumberOk(s, v) THEN Good(v) ELSE Bad
      [] s.type = "string" -> IF StringOk(s, v) THEN Good(v) ELSE Bad
      [] s.type = "boolean" -> IF IsBool(v) THEN Good(v) ELSE Bad
      [] s.type = "unknown" -> Good(v)
      [] s.type = "record" -> IF IsObj(v) THEN Good(v) ELSE Bad
      [] s.type = "enum" ->
            IF IsStr(v) /\ v.str \in s.values THEN Good(v) ELSE Bad
      [] s.type = "array" ->
            IF ~IsArr(v) THEN Bad
            ELSE LET r == [k \in DOMAIN v.arr |-> ZParse(s.elem, v.arr[k])]
                 IN  IF (\A k \in DOMAIN r : r[k].ok) /\ Len(v.arr) >= s.minLen
                     THEN Good(Arr([k \in DOMAIN r |-> r[k].value]))
                     ELSE Bad
      [] s.type = "object" ->
            IF ~IsObj(v) THEN Bad
            ELSE LET o == v.obj
                     shape == s.shape
                     r == [k \in DOMAIN shape |->
                             IF k \in DOMAIN o
                             THEN LET p == ZParse(shape[k].schema, o[k])
                                  IN  [ok |-> p.ok, has |-> TRUE, value |-> p.value]
                             ELSE CASE shape[k].mode = "default" ->
                                         [ok |-> TRUE, has |-> TRUE,
                                          value |-> shape[k].dflt]
                                    [] shape[k].mode = "optional" ->
                                         [ok |-> TRUE, has |-> FALSE, value |-> JNull]
                                    [] OTHER ->
                                         [ok |-> FALSE, has |-> FALSE, value |-> JNull]]
                     present == {k \in DOMAIN shape : r[k].has}
                 IN  IF /\ \A k \in DOMAIN shape : r[k].ok
                        /\ s.strict => DOMAIN o \subseteq DOMAIN shape
                     THEN Good(Obj([k \in present |-> r[k].value]))
                     ELSE Bad

\* ------------------------------------------------------------ input schemas

NameString == ZString(1, FALSE, 0)
AnyString == ZString(0, FALSE, 0)
BoolFalse == Default(ZBoolean, Bool(FALSE))

ListPagesSchema ==
    ZObject([limit |-> Default(ZNumber(TRUE, TRUE, 1, TRUE, 500), Num(50)),
             offset |-> Default(ZNumber(TRUE, TRUE, 0, FALSE, 0), Num(0)),
             journal_only |-> BoolFalse,
             namespace |-> Optional(AnyString)], TRUE)

GetPageSchema ==
    ZObject([name |-> Required(NameString), include_children |-> BoolFalse], TRUE)

GetPageContentSchema == ZObject([name |-> Required(NameString)], TRUE)

CreatePageSchema ==
    ZObject([name |-> Required(NameString),
             content |-> Optional(AnyString),
             properties |-> Optional(ZRecordUnknown),
             format |-> Default(ZEnum({"markdown", "org"}), Str("markdown")),
             journal |-> BoolFalse], TRUE)

DeletePageSchema == ZObject([name |-> Required(NameString)], TRUE)

RenamePageSchema ==
    ZObject([old_name |-> Required(NameString),
             new_name |-> Required(NameString)], TRUE)

GetPageLinkedReferencesSchema == ZObject([name |-> Required(NameString)], TRUE)

GetBlockSchema ==
    ZObject([id |-> Required(NameString), include_children |-> BoolFalse], TRUE)

InsertBlockSchema ==
    ZObject([page_or_block |-> Required(NameString),
             content |-> Required(AnyString),
             sibling |-> BoolFalse,
             before |-> BoolFalse,
             properties |-> Optional(ZRecordUnknown)], TRUE)

AppendBlockSchema ==
    ZObject([page |-> Required(NameString),
             content |-> Required(AnyString),
             properties |-> Optional(ZRecordUnknown)], TRUE)

UpdateBlockSchema ==
    ZObject([id |-> Required(NameString),
             content |-> Required(AnyString),
             properties |-> Optional(ZRecordUnknown)], TRUE)

RemoveBlockSchema == ZObject([id |-> Required(NameString)], TRUE)

MoveBlockSchema ==
    ZObject([src_id |-> Required(NameString),
             target_id |-> Required(NameString),
             before |-> BoolFalse,
             children |-> BoolFalse], TRUE)

\* The two levels of block objects are plain z.object(...): not strict.
BatchChildSchema ==
    ZObject([content |-> Required(AnyString),
             properties |-> Optional(ZRecordUnknown)], FALSE)

BatchBlockSchema ==
    ZObject([content |-> Required(AnyString),
             properties |-> Optional(ZRecordUnknown),
             children |-> Optional(ZArray(BatchChildSchema, 0))], FALSE)

InsertBatchBlockSchema ==
    ZObject([page_or_block |-> Required(NameString),
             blocks |-> Required(ZArray(BatchBlockSchema, 1)),
             sibling |-> BoolFalse], TRUE)

BlockPropertySchema ==
    ZObject([id |-> Required(NameString),
             key |-> Required(NameString),
             value |-> Optional(ZUnknown)], TRUE)

SearchSchema == ZObject([query |-> Required(ZString(1, TRUE, 500))], TRUE)

CreateJournalSchema == ZObject([date |-> Required(NameString)], TRUE)

\* z.object({}) without .strict()
GetGraphInfoSchemaLoose == ZObject(<<>>, FALSE)

GetGraphInfoSchema == ZObject(<<>>, TRUE)

GetAllTagsSchema == ZObject(<<>>, TRUE)

\* --------------------------------------------------------------- formatters

\* truncate with the limit itself already cut.
truncateStrict(text) ==
    IF Len(text) < CHARACTER_LIMIT THEN text
    ELSE SubSeq(text, 1, CHARACTER_LIMIT)
         \o "\n\n[Response truncated - "
         \o ToString(Len(text) - CHARACTER_LIMIT) \o " characters omitted]"

\* The note's dash stands for the source's em dash: one UTF-16 unit either way.
truncate(text) ==
    IF Len(text) <= CHARACTER_LIMIT THEN text
    ELSE SubSeq(text, 1, CHARACTER_LIMIT)
         \o "\n\n[Response truncated - "
         \o ToString(Len(text) - CHARACTER_LIMIT) \o " characters omitted]"

textResponse(text) == [isError |-> FALSE, text |-> truncate(text)]

errorResponse(message) == [isError |-> TRUE, text |-> message]

\* A thrown value: an Error (or a DOMException, which is an Error) has a message.
Error(message) == [isErr |-> TRUE, dom |-> FALSE, name |-> "Error", message |-> message]
TypeError(message) ==
    [isErr |-> TRUE, dom |-> FALSE, name |-> "TypeError", message |-> message]
SyntaxError(message) ==
    [isErr |-> TRUE, dom |-> FALSE, name |-> "SyntaxError", message |-> message]
DOMException(name, message) ==
    [isErr |-> TRUE, dom |-> TRUE, name |-> name, message |-> message]

extractErrorMessage(error) ==
    IF error.isErr THEN error.message ELSE ToStr(error.value)

RECURSIVE renderBlockTree(_, _)
RECURSIVE BlockTreeLines(_, _)
\* A loop body that renders the children of a block before the block itself.
BlockTreeLinesChildrenFirst(blocks, depth) ==
    IF Len(blocks) = 0 THEN <<>>
    ELSE LET block == blocks[1]
             raw == Get(block, "content")
             content == IF IsStr(raw) THEN Str(Trim(raw.str)) ELSE Undef
             own == IF Truthy(content)
                    THEN <<Repeat("  ", depth) \o "- " \o content.str>> ELSE <<>>
             ch == Get(block, "children")
             sub == IF IsArr(ch) /\ Len(ch.arr) > 0
                    THEN <<renderBlockTree(ch.arr, depth + 1)>> ELSE <<>>
         IN  sub \o own \o BlockTreeLines(Tail(blocks), depth)

\* A loop body that renders the children of a block without content one level
\* up, in the place of their parent.
BlockTreeLinesPulledUp(blocks, depth) ==
    IF Len(blocks) = 0 THEN <<>>
    ELSE LET block == blocks[1]
             raw == Get(block, "content")
             content == IF IsStr(raw) THEN Str(Trim(raw.str)) ELSE Undef
             own == IF Truthy(content)
                    THEN <<Repeat("  ", depth) \o "- " \o content.str>> ELSE <<>>
             ch == Get(block, "children")
             below == IF Truthy(content) THEN depth + 1 ELSE depth
             sub == IF IsArr(ch) /\ Len(ch.arr) > 0
                    THEN <<renderBlockTree(ch.arr, below)>> ELSE <<>>
         IN  own \o sub \o BlockTreeLines(Tail(blocks), depth)

\* The body of renderBlockTree's loop, over blocks in order: the entries
\* pushed to `lines`.
BlockTreeLines(blocks, depth) ==
    IF Len(blocks) = 0 THEN <<>>
    ELSE LET block == blocks[1]
             indent == Repeat("  ", depth)
             raw == Get(block, "content")
             content == IF IsStr(raw) THEN Str(Trim(raw.str)) ELSE Undef
             own == IF Truthy(content)
                    THEN <<indent \o "- " \o content.str>> ELSE <<>>
             ch == Get(block, "children")
             sub == IF IsArr(ch) /\ Len(ch.arr) > 0
                    THEN <<renderBlockTree(ch.arr, depth + 1)>> ELSE <<>>
         IN  own \o sub \o BlockTreeLines(Tail(blocks), depth)

renderBlockTree(blocks, depth) == Join(BlockTreeLines(blocks, depth), "\n")

\* " @@" stands for the source's space and calendar emoji (two UTF-16 units).
formatPageSummary(page) ==
    LET journal == IF Truthy(Get(page, "journal?")) THEN " @@" ELSE ""
        ns == IF Truthy(Get(page, "namespace"))
              THEN " (ns: " \o ToStr(Get(Get(page, "namespace"), "id")) \o ")"
              ELSE ""
        shown == IF Truthy(Get(page, "originalName"))
                 THEN Get(page, "originalName") ELSE Get(page, "name")
    IN  "- **" \o ToStr(shown) \o "** (uuid: " \o ToStr(Get(page, "uuid")) \o ")"
        \o journal \o ns

\* ------------------------------------------------------------- LogseqClient

DEFAULT_API_URL == "http://127.0.0.1:12315"

\* A client that keeps the base URL as it was given.
LogseqClientKeepsSlashes(token, baseUrl) ==
    [token |-> token,
     baseUrl |-> IF IsUndef(baseUrl) THEN DEFAULT_API_URL ELSE baseUrl.str]

\* new LogseqClient(token, baseUrl); baseUrl is Undef when the variable is unset.
LogseqClient(token, baseUrl) ==
    [token |-> token,
     baseUrl |-> StripTrailingSlashes(IF IsUndef(baseUrl) THEN DEFAULT_API_URL
                                      ELSE baseUrl.str)]

RECURSIVE JsonWire(_)
\* What JSON.stringify puts on the wire for v: a member of an object whose value
\* is undefined is left out, an undefined element of an array becomes null.
JsonWire(v) ==
    CASE IsObj(v) ->
            Obj([k \in {j \in DOMAIN v.obj : ~IsUndef(v.obj[j])} |-> JsonWire(v.obj[k])])
      [] IsArr(v) ->
            Arr([k \in DOMAIN v.arr |->
                   IF IsUndef(v.arr[k]) THEN JNull ELSE JsonWire(v.arr[k])])
      [] OTHER -> v

\* The request call() hands to fetch.
HttpRequest(cl, method, args) ==
    [url |-> cl.baseUrl \o "/api",
     verb |-> "POST",
     contentType |-> "application/json",
     authorization |-> "Bearer " \o cl.token,
     body |-> [method |-> method, args |-> JsonWire(Arr(args)).arr]]

\* x ?? {}
OrEmpty(x) == IF IsUndef(x) \/ IsNull(x) THEN EmptyObj ELSE x

\* The client's methods: the remote method and the positional arguments each
\* passes to call().
ApiCall(method, args) == [method |-> method, args |-> args]

getAllPages == ApiCall("logseq.Editor.getAllPages", <<>>)
getPage(nameOrId, opts) == ApiCall("logseq.Editor.getPage", <<nameOrId, OrEmpty(opts)>>)
getPageBlocksTree(pageName) == ApiCall("logseq.Editor.getPageBlocksTree", <<pageName>>)
getPageLinkedReferences(pageName) ==
    ApiCall("logseq.Editor.getPageLinkedReferences", <<pageName>>)
\* { redirect: false, ...opts }: the keys of opts win.
createPage(name, properties, opts) ==
    ApiCall("logseq.Editor.createPage",
            <<name, OrEmpty(properties),
              Obj([k \in {"redirect"} \cup DOMAIN opts.obj |->
                     IF k \in DOMAIN opts.obj THEN opts.obj[k] ELSE Bool(FALSE)])>>)
deletePage(name) == ApiCall("logseq.Editor.deletePage", <<name>>)
renamePage(oldName, newName) == ApiCall("logseq.Editor.renamePage", <<oldName, newName>>)
getBlock(idOrUuid, opts) == ApiCall("logseq.Editor.getBlock", <<idOrUuid, OrEmpty(opts)>>)
insertBlock(srcBlock, content, opts) ==
    ApiCall("logseq.Editor.insertBlock", <<srcBlock, content, OrEmpty(opts)>>)
insertBatchBlock(srcBlock, batch, opts) ==
    ApiCall("logseq.Editor.insertBatchBlock", <<srcBlock, batch, OrEmpty(opts)>>)
updateBlock(srcBlock, content, opts) ==
    ApiCall("logseq.Editor.updateBlock", <<srcBlock, content, OrEmpty(opts)>>)
removeBlock(srcBlock) == ApiCall("logseq.Editor.removeBlock", <<srcBlock>>)
moveBlock(srcBlock, targetBlock, opts) ==
    ApiCall("logseq.Editor.moveBlock", <<srcBlock, targetBlock, OrEmpty(opts)>>)
appendBlockInPage(page, content, opts) ==
    ApiCall("logseq.Editor.appendBlockInPage", <<page, content, OrEmpty(opts)>>)
getBlockProperties(blockIdOrUuid) ==
    ApiCall("logseq.Editor.getBlockProperties", <<blockIdOrUuid>>)
upsertBlockProperty(blockIdOrUuid, key, value) ==
    ApiCall("logseq.Editor.upsertBlockProperty", <<blockIdOrUuid, key, value>>)
createJournalPage(date) == ApiCall("logseq.Editor.createJournalPage", <<date>>)
getAllTags == ApiCall("logseq.Editor.getAllTags", <<>>)
search(query) == ApiCall("logseq.App.search", <<query>>)
getCurrentGraph == ApiCall("logseq.App.getCurrentGraph", <<>>)

\* An error message that leaves the body text of the reply out.
ApiErrorMessageStatusOnly(status, statusText, t) ==
    "Logseq API error " \o ToString(status) \o ": " \o statusText

\* The message of the error call() throws for a non-2xx reply with body text t.
ApiErrorMessage(status, statusText, t) ==
    "Logseq API error " \o ToString(status) \o ": "
    \o (IF t # "" THEN t ELSE statusText)

TimeoutMessage ==
    "Logseq API request timed out after " \o ToString(REQUEST_TIMEOUT_MS) \o "ms. "
    \o "Ensure Logseq is running and the HTTP API server is started."

\* The catch clause of call(): an AbortError DOMException becomes the timeout
\* error, anything else is rethrown as it is.
CallCatch(error) ==
    IF error.isErr /\ error.dom /\ error.name = "AbortError"
    THEN Error(TimeoutMessage) ELSE error

\* ------------------------------------------------------------ tool handlers
\* A handler is run from its start on the replies its calls have had so far
\* (vals, the decoded values, all successful): it awaits its next call, returns
\* a result, or throws inside its try block.

Await(c) == [kind |-> "call", call |-> c]
Return(r) == [kind |-> "return", result |-> r]
Throw(e) == [kind |-> "throw", error |-> e]

\* params.k: undefined when the validated parameters hold no k.
P(p, k) == IF k \in DOMAIN p THEN p[k] ELSE Undef

NullRead(prop) == TypeError("Cannot read properties of null (reading '" \o prop \o "')")

Min(a, b) == IF a <= b THEN a ELSE b

\* pages.slice(from, to), 0 <= from <= to
Slice(items, from, to) == SubSeq(items, from + 1, Min(to, Len(items)))

RECURSIVE StringifyCompact(_)
\* JSON.stringify(v)
StringifyCompact(v) ==
    CASE IsArr(v) ->
            "[" \o Join([k \in DOMAIN v.arr |-> StringifyCompact(v.arr[k])], ",") \o "]"
      [] IsObj(v) ->
            LET keys == KeysOf(v.obj)
            IN  "{" \o Join([k \in DOMAIN keys |->
                              "\"" \o keys[k] \o "\":" \o StringifyCompact(v.obj[keys[k]])],
                            ",") \o "}"
      [] OTHER -> Stringify(v, 0)

\* logseq_list_pages announcing a next batch also when the list ends with
\* this one.
logseq_list_pages_more_at_end(p, vals) ==
    IF Len(vals) = 0 THEN Await(getAllPages)
    ELSE LET all == vals[1]
             ns == P(p, "namespace")
         IN  IF ~IsArr(all)
             THEN Throw(NullRead(IF p.journal_only.bool \/ Truthy(ns)
                                 THEN "filter" ELSE "length"))
             ELSE
             LET journals == IF p.journal_only.bool
                             THEN SelectSeq(all.arr, LAMBDA pg : Truthy(Get(pg, "journal?")))
                             ELSE all.arr
                 prefix == ToLowerCase(ns.str)
                 NameOf(pg) == IF IsStr(Get(pg, "name")) THEN Get(pg, "name").str ELSE ""
                 pages == IF Truthy(ns)
                          THEN SelectSeq(journals, LAMBDA pg :
                                   StartsWith(ToLowerCase(NameOf(pg)), prefix \o "/"))
                          ELSE journals
                 total == Len(pages)
                 offset == p.offset.num
                 limit == p.limit.num
                 sliced == Slice(pages, offset, offset + limit)
                 hasMore == offset + limit <= total
                 lines == <<"**Pages** (" \o ToString(Len(sliced)) \o " of "
                            \o ToString(total) \o ")", "">>
                          \o [k \in DOMAIN sliced |-> formatPageSummary(sliced[k])]
                          \o (IF hasMore
                              THEN <<"", "_More pages available. Use offset="
                                         \o ToString(offset + limit)
                                         \o " to see next batch._">>
                              ELSE <<>>)
             IN  Return(textResponse(Join(lines, "\n")))

\* logseq_list_pages slicing from offset to limit, not to offset + limit.
logseq_list_pages_slice_to_limit(p, vals) ==
    IF Len(vals) = 0 THEN Await(getAllPages)
    ELSE LET all == vals[1]
             ns == P(p, "namespace")
         IN  IF ~IsArr(all)
             THEN Throw(NullRead(IF p.journal_only.bool \/ Truthy(ns)
                                 THEN "filter" ELSE "length"))
             ELSE
             LET journals == IF p.journal_only.bool
                             THEN SelectSeq(all.arr, LAMBDA pg : Truthy(Get(pg, "journal?")))
                             ELSE all.arr
                 prefix == ToLowerCase(ns.str)
                 NameOf(pg) == IF IsStr(Get(pg, "name")) THEN Get(pg, "name").str ELSE ""
                 pages == IF Truthy(ns)
                          THEN SelectSeq(journals, LAMBDA pg :
                                   StartsWith(ToLowerCase(NameOf(pg)), prefix \o "/"))
                          ELSE journals
                 total == Len(pages)
                 offset == p.offset.num
                 limit == p.limit.num
                 sliced == Slice(pages, offset, limit)
                 hasMore == offset + limit < total
                 lines == <<"**Pages** (" \o ToString(Len(sliced)) \o " of "
                            \o ToString(total) \o ")", "">>
                          \o [k \in DOMAIN sliced |-> formatPageSummary(sliced[k])]
                          \o (IF hasMore
                              THEN <<"", "_More pages available. Use offset="
                                         \o ToString(offset + limit)
                                         \o " to see next batch._">>
                              ELSE <<>>)
             IN  Return(textResponse(Join(lines, "\n")))

logseq_list_pages(p, vals) ==
    IF Len(vals) = 0 THEN Await(getAllPages)
    ELSE LET all == vals[1]
             ns == P(p, "namespace")
         IN  IF ~IsArr(all)
             THEN Throw(NullRead(IF p.journal_only.bool \/ Truthy(ns)
                                 THEN "filter" ELSE "length"))
             ELSE
             LET journals == IF p.journal_only.bool
                             THEN SelectSeq(all.arr, LAMBDA pg : Truthy(Get(pg, "journal?")))
                             ELSE all.arr
                 prefix == ToLowerCase(ns.str)
                 NameOf(pg) == IF IsStr(Get(pg, "name")) THEN Get(pg, "name").str ELSE ""
                 pages == IF Truthy(ns)
                          THEN SelectSeq(journals, LAMBDA pg :
                                   StartsWith(ToLowerCase(NameOf(pg)), prefix \o "/"))
                          ELSE journals
                 total == Len(pages)
                 offset == p.offset.num
                 limit == p.limit.num
                 sliced == Slice(pages, offset, offset + limit)
                 hasMore == offset + limit < total
                 lines == <<"**Pages** (" \o ToString(Len(sliced)) \o " of "
                            \o ToString(total) \o ")", "">>
                          \o [k \in DOMAIN sliced |-> formatPageSummary(sliced[k])]
                          \o (IF hasMore
                              THEN <<"", "_More pages available. Use offset="
                                         \o ToString(offset + limit)
                                         \o " to see next batch._">>
                              ELSE <<>>)
             IN  Return(textResponse(Join(lines, "\n")))

\* logseq_get_page creating the page it does not find.
logseq_get_page_creates_missing(p, vals) ==
    IF Len(vals) = 0
    THEN Await(getPage(p.name, Obj([includeChildren |-> p.include_children])))
    ELSE IF Len(vals) = 1 /\ ~Truthy(vals[1])
    THEN Await(createPage(p.name, Undef, Obj([redirect |-> Bool(FALSE)])))
    ELSE Return(textResponse(Stringify(vals[Len(vals)], 0)))

logseq_get_page(p, vals) ==
    IF Len(vals) = 0
    THEN Await(getPage(p.name, Obj([includeChildren |-> p.include_children])))
    ELSE IF ~Truthy(vals[1])
    THEN Return(errorResponse("Page '" \o p.name.str
             \o "' not found. Use logseq_list_pages to see available pages."))
    ELSE Return(textResponse(Stringify(vals[1], 0)))

logseq_get_page_content(p, vals) ==
    IF Len(vals) = 0 THEN Await(getPageBlocksTree(p.name))
    ELSE IF ~Truthy(vals[1]) \/ (IsArr(vals[1]) /\ Len(vals[1].arr) = 0)
    THEN Return(textResponse("Page '" \o p.name.str \o "' is empty or has no blocks."))
    ELSE Return(textResponse("# " \o p.name.str \o "\n\n"
                             \o renderBlockTree(vals[1].arr, 0)))

\* logseq_create_page reading the page back after it has appended the content.
logseq_create_page_reads_back(p, vals) ==
    IF Len(vals) = 0
    THEN Await(createPage(p.name, P(p, "properties"),
                          Obj([format |-> p.format, journal |-> p.journal,
                               redirect |-> Bool(FALSE)])))
    ELSE IF Len(vals) = 1 /\ Truthy(P(p, "content"))
    THEN Await(appendBlockInPage(p.name, p.content, Undef))
    ELSE IF Len(vals) = 2
    THEN Await(getPageBlocksTree(p.name))
    ELSE Return(textResponse("Page '" \o p.name.str \o "' created successfully.\n\n"
                             \o Stringify(vals[1], 0)))

\* logseq_create_page appending whenever a content is given, the empty one
\* included.
logseq_create_page_appends_empty(p, vals) ==
    IF Len(vals) = 0
    THEN Await(createPage(p.name, P(p, "properties"),
                          Obj([format |-> p.format, journal |-> p.journal,
                               redirect |-> Bool(FALSE)])))
    ELSE IF Len(vals) = 1 /\ ~IsUndef(P(p, "content"))
    THEN Await(appendBlockInPage(p.name, p.content, Undef))
    ELSE Return(textResponse("Page '" \o p.name.str \o "' created successfully.\n\n"
                             \o Stringify(vals[1], 0)))

logseq_create_page(p, vals) ==
    IF Len(vals) = 0
    THEN Await(createPage(p.name, P(p, "properties"),
                          Obj([format |-> p.format, journal |-> p.journal,
                               redirect |-> Bool(FALSE)])))
    ELSE IF Len(vals) = 1 /\ Truthy(P(p, "content"))
    THEN Await(appendBlockInPage(p.name, p.content, Undef))
    ELSE Return(textResponse("Page '" \o p.name.str \o "' created successfully.\n\n"
                             \o Stringify(vals[1], 0)))

logseq_delete_page(p, vals) ==
    IF Len(vals) = 0 THEN Await(deletePage(p.name))
    ELSE Return(textResponse("Page '" \o p.name.str \o "' deleted successfully."))

logseq_rename_page(p, vals) ==
    IF Len(vals) = 0 THEN Await(renamePage(p.old_name, p.new_name))
    ELSE Return(textResponse("Page renamed from '" \o p.old_name.str \o "' to '"
                             \o p.new_name.str \o "'."))

\* The lines of one [page, blocks] entry of the linked references.
ReferenceLines(ref) ==
    LET page == ref.arr[1]
        blocks == ref.arr[2].arr
        shown == IF Truthy(Get(page, "originalName"))
                 THEN Get(page, "originalName") ELSE Get(page, "name")
        BlockLine(b) == LET c == Get(b, "content")
                        IN  "  - " \o (IF IsStr(c) THEN Trim(c.str) ELSE "undefined")
    IN  <<"### " \o ToStr(shown)>> \o [k \in DOMAIN blocks |-> BlockLine(blocks[k])]
        \o <<"">>

RECURSIVE FlattenLines(_)
FlattenLines(groups) ==
    IF Len(groups) = 0 THEN <<>> ELSE groups[1] \o FlattenLines(Tail(groups))

logseq_get_page_linked_references(p, vals) ==
    IF Len(vals) = 0 THEN Await(getPageLinkedReferences(p.name))
    ELSE IF ~Truthy(vals[1]) \/ (IsArr(vals[1]) /\ Len(vals[1].arr) = 0)
    THEN Return(textResponse("No linked references found for page '"
                             \o p.name.str \o "'."))
    ELSE LET refs == vals[1].arr
             lines == <<"**Linked references for '" \o p.name.str \o "'** ("
                        \o ToString(Len(refs)) \o " pages)\n">>
                      \o FlattenLines([k \in DOMAIN refs |-> ReferenceLines(refs[k])])
         IN  Return(textResponse(Join(lines, "\n")))

logseq_get_block(p, vals) ==
    IF Len(vals) = 0
    THEN Await(getBlock(p.id, Obj([includeChildren |-> p.include_children])))
    ELSE LET block == vals[1]
             ch == Get(block, "children")
         IN  IF ~Truthy(block)
             THEN Return(errorResponse("Block '" \o p.id.str
                      \o "' not found. Verify the UUID is correct."))
             ELSE IF p.include_children.bool /\ IsArr(ch) /\ Len(ch.arr) > 0
             THEN Return(textResponse("**Block " \o ToStr(Get(block, "uuid")) \o "**\n\n"
                      \o renderBlockTree(<<block>>, 0)
                      \o "\n\n---\nRaw:\n" \o Stringify(block, 0)))
             ELSE Return(textResponse(Stringify(block, 0)))

logseq_insert_block(p, vals) ==
    IF Len(vals) = 0
    THEN Await(insertBlock(p.page_or_block, p.content,
                           Obj([sibling |-> p.sibling, before |-> p.before,
                                properties |-> P(p, "properties")])))
    ELSE Return(textResponse("Block inserted successfully.\n\n" \o Stringify(vals[1], 0)))

logseq_append_block(p, vals) ==
    IF Len(vals) = 0
    THEN Await(appendBlockInPage(p.page, p.content,
                                 Obj([properties |-> P(p, "properties")])))
    ELSE Return(textResponse("Block appended to '" \o p.page.str \o "'.\n\n"
                             \o Stringify(vals[1], 0)))

logseq_update_block(p, vals) ==
    IF Len(vals) = 0
    THEN Await(updateBlock(p.id, p.content, Obj([properties |-> P(p, "properties")])))
    ELSE Return(textResponse("Block '" \o p.id.str \o "' updated successfully."))

logseq_remove_block(p, vals) ==
    IF Len(vals) = 0 THEN Await(removeBlock(p.id))
    ELSE Return(textResponse("Block '" \o p.id.str \o "' removed successfully."))

logseq_move_block(p, vals) ==
    IF Len(vals) = 0
    THEN Await(moveBlock(p.src_id, p.target_id,
                         Obj([before |-> p.before, children |-> p.children])))
    ELSE Return(textResponse("Block '" \o p.src_id.str \o "' moved to '"
                             \o p.target_id.str \o "'."))

logseq_insert_batch_blocks(p, vals) ==
    IF Len(vals) = 0
    THEN Await(insertBatchBlock(p.page_or_block, p.blocks, Obj([sibling |-> p.sibling])))
    ELSE IF ~IsArr(vals[1]) THEN Throw(NullRead("length"))
    ELSE Return(textResponse(ToString(Len(vals[1].arr)) \o " blocks inserted successfully.\n\n"
                             \o Stringify(vals[1], 0)))

\* logseq_block_property writing only when the value is truthy.
logseq_block_property_if_truthy(p, vals) ==
    IF Len(vals) = 0
    THEN IF Truthy(P(p, "value"))
         THEN Await(upsertBlockProperty(p.id, p.key, p.value))
         ELSE Await(getBlockProperties(p.id))
    ELSE IF Truthy(P(p, "value"))
    THEN Return(textResponse("Property '" \o p.key.str \o "' set on block '"
                             \o p.id.str \o "'."))
    ELSE Return(textResponse(Stringify(vals[1], 0)))

logseq_block_property(p, vals) ==
    IF Len(vals) = 0
    THEN IF ~IsUndef(P(p, "value"))
         THEN Await(upsertBlockProperty(p.id, p.key, p.value))
         ELSE Await(getBlockProperties(p.id))
    ELSE IF ~IsUndef(P(p, "value"))
    THEN Return(textResponse("Property '" \o p.key.str \o "' set on block '"
                             \o p.id.str \o "'."))
    ELSE Return(textResponse(Stringify(vals[1], 0)))

logseq_search(p, vals) ==
    IF Len(vals) = 0 THEN Await(search(p.query))
    ELSE IF ~IsObj(vals[1]) THEN Throw(NullRead("pages"))
    ELSE LET rp == Get(vals[1], "pages")
             rb == Get(vals[1], "blocks")
             pages == IF IsArr(rp) THEN rp.arr ELSE <<>>
             blocks == IF IsArr(rb) THEN rb.arr ELSE <<>>
             BlockText(b) == IF IsObj(b) \/ IsArr(b) THEN StringifyCompact(b) ELSE ToStr(b)
             lines == <<"**Search results for '" \o p.query.str \o "'**\n">>
                      \o (IF Len(pages) > 0
                          THEN <<"### Pages (" \o ToString(Len(pages)) \o ")">>
                               \o [k \in DOMAIN pages |-> "- " \o ToStr(pages[k])]
                               \o <<"">>
                          ELSE <<>>)
                      \o (IF Len(blocks) > 0
                          THEN <<"### Blocks (" \o ToString(Len(blocks)) \o ")">>
                               \o [k \in DOMAIN blocks |-> "- " \o BlockText(blocks[k])]
                               \o <<"">>
                          ELSE <<>>)
                      \o (IF Len(pages) = 0 /\ Len(blocks) = 0
                          THEN <<"No results found for '" \o p.query.str
                                 \o "'. Try broader search terms.">>
                          ELSE <<>>)
         IN  Return(textResponse(Join(lines, "\n")))

logseq_create_journal(p, vals) ==
    IF Len(vals) = 0 THEN Await(createJournalPage(p.date))
    ELSE Return(textResponse("Journal page created for '" \o p.date.str \o "'.\n\n"
                             \o Stringify(vals[1], 0)))

logseq_get_graph_info(p, vals) ==
    IF Len(vals) = 0 THEN Await(getCurrentGraph)
    ELSE IF ~Truthy(vals[1])
    THEN Return(errorResponse("No graph is currently open in Logseq."))
    ELSE Return(textResponse(Stringify(vals[1], 0)))

logseq_get_all_tags(p, vals) ==
    IF Len(vals) = 0 THEN Await(getAllTags)
    ELSE IF ~Truthy(vals[1]) \/ (IsArr(vals[1]) /\ Len(vals[1].arr) = 0)
    THEN Return(textResponse("No tags found in the current graph."))
    ELSE LET tags == vals[1].arr
             TagLine(t) ==
                 "- " \o ToStr(IF Truthy(Get(t, "originalName"))
                               THEN Get(t, "originalName") ELSE Get(t, "name"))
                 \o " (uuid: " \o ToStr(Get(t, "uuid")) \o ")"
         IN  Return(textResponse(Join(
                 <<"**Tags** (" \o ToString(Len(tags)) \o ")\n">>
                 \o [k \in DOMAIN tags |-> TagLine(tags[k])], "\n")))

\* ------------------------------------------------------------ tool registry

PageTools ==
    {"logseq_list_pages", "logseq_get_page", "logseq_get_page_content",
     "logseq_create_page", "logseq_delete_page", "logseq_rename_page",
     "logseq_get_page_linked_references"}
BlockTools ==
    {"logseq_get_block", "logseq_insert_block", "logseq_append_block",
     "logseq_update_block", "logseq_remove_block", "logseq_move_block",
     "logseq_insert_batch_blocks", "logseq_block_property"}
SearchTools == {"logseq_search"}
JournalTools == {"logseq_create_journal"}
GraphTools == {"logseq_get_graph_info", "logseq_get_all_tags"}

\* A registration in which logseq_block_property carries the name of the
\* tool registered before it.
RegisteredNameReused ==
    <<"logseq_list_pages", "logseq_get_page", "logseq_get_page_content",
      "logseq_create_page", "logseq_delete_page", "logseq_rename_page",
      "logseq_get_page_linked_references",
      "logseq_get_block", "logseq_insert_block", "logseq_append_block",
      "logseq_update_block", "logseq_remove_block", "logseq_move_block",
      "logseq_insert_batch_blocks", "logseq_insert_batch_blocks",
      "logseq_search",
      "logseq_create_journal",
      "logseq_get_graph_info", "logseq_get_all_tags">>

\* The names passed to server.registerTool, in the order of the calls: page,
\* block, search, journal and graph tools.
Registered ==
    <<"logseq_list_pages", "logseq_get_page", "logseq_get_page_content",
      "logseq_create_page", "logseq_delete_page", "logseq_rename_page",
      "logseq_get_page_linked_references",
      "logseq_get_block", "logseq_insert_block", "logseq_append_block",
      "logseq_update_block", "logseq_remove_block", "logseq_move_block",
      "logseq_insert_batch_blocks", "logseq_block_property",
      "logseq_search",
      "logseq_create_journal",
      "logseq_get_graph_info", "logseq_get_all_tags">>

\* The tools the server answers for.
Tools == {Registered[k] : k \in DOMAIN Registered}

\* registerTool(name, {annotations: {readOnlyHint, ...}}, handler): the hint
\* of each tool.
readOnlyHint(t) ==
    t \in {"logseq_list_pages", "logseq_get_page", "logseq_get_page_content",
           "logseq_get_page_linked_references", "logseq_get_block", "logseq_search",
           "logseq_get_graph_info", "logseq_get_all_tags"}

\* registerTool(name, {inputSchema, ...}, handler): the schema of each tool.
InputSchema(t) ==
    CASE t = "logseq_list_pages" -> ListPagesSchema
      [] t = "logseq_get_page" -> GetPageSchema
      [] t = "logseq_get_page_content" -> GetPageContentSchema
      [] t = "logseq_create_page" -> CreatePageSchema
      [] t = "logseq_delete_page" -> DeletePageSchema
      [] t = "logseq_rename_page" -> RenamePageSchema
      [] t = "logseq_get_page_linked_references" -> GetPageLinkedReferencesSchema
      [] t = "logseq_get_block" -> GetBlockSchema
      [] t = "logseq_insert_block" -> InsertBlockSchema
      [] t = "logseq_append_block" -> AppendBlockSchema
      [] t = "logseq_update_block" -> UpdateBlockSchema
      [] t = "logseq_remove_block" -> RemoveBlockSchema
      [] t = "logseq_move_block" -> MoveBlockSchema
      [] t = "logseq_insert_batch_blocks" -> InsertBatchBlockSchema
      [] t = "logseq_block_property" -> BlockPropertySchema
      [] t = "logseq_search" -> SearchSchema
      [] t = "logseq_create_journal" -> CreateJournalSchema
      [] t = "logseq_get_graph_info" -> GetGraphInfoSchema
      [] t = "logseq_get_all_tags" -> GetAllTagsSchema

\* The try block of each tool's handler.
TryBlock(t, p, vals) ==
    CASE t = "logseq_list_pages" -> logseq_list_pages(p, vals)
      [] t = "logseq_get_page" -> logseq_get_page(p, vals)
      [] t = "logseq_get_page_content" -> logseq_get_page_content(p, vals)
      [] t = "logseq_create_page" -> logseq_create_page(p, vals)
      [] t = "logseq_delete_page" -> logseq_delete_page(p, vals)
      [] t = "logseq_rename_page" -> logseq_rename_page(p, vals)
      [] t = "logseq_get_page_linked_references" ->
            logseq_get_page_linked_references(p, vals)
      [] t = "logseq_get_block" -> logseq_get_block(p, vals)
      [] t = "logseq_insert_block" -> logseq_insert_block(p, vals)
      [] t = "logseq_append_block" -> logseq_append_block(p, vals)
      [] t = "logseq_update_block" -> logseq_update_block(p, vals)
      [] t = "logseq_remove_block" -> logseq_remove_block(p, vals)
      [] t = "logseq_move_block" -> logseq_move_block(p, vals)
      [] t = "logseq_insert_batch_blocks" -> logseq_insert_batch_blocks(p, vals)
      [] t = "logseq_block_property" -> logseq_block_property(p, vals)
      [] t = "logseq_search" -> logseq_search(p, vals)
      [] t = "logseq_create_journal" -> logseq_create_journal(p, vals)
      [] t = "logseq_get_graph_info" -> logseq_get_graph_info(p, vals)
      [] t = "logseq_get_all_tags" -> logseq_get_all_tags(p, vals)

\* The text each handler's catch clause puts before the error's message.
FailurePrefix(t) ==
    CASE t = "logseq_list_pages" -> "Failed to list pages: "
      [] t = "logseq_get_page" -> "Failed to get page: "
      [] t = "logseq_get_page_content" -> "Failed to get page content: "
      [] t = "logseq_create_page" -> "Failed to create page: "
      [] t = "logseq_delete_page" -> "Failed to delete page: "
      [] t = "logseq_rename_page" -> "Failed to rename page: "
      [] t = "logseq_get_page_linked_references" -> "Failed to get linked references: "
      [] t = "logseq_get_block" -> "Failed to get block: "
      [] t = "logseq_insert_block" -> "Failed to insert block: "
      [] t = "logseq_append_block" -> "Failed to append block: "
      [] t = "logseq_update_block" -> "Failed to update block: "
      [] t = "logseq_remove_block" -> "Failed to remove block: "
      [] t = "logseq_move_block" -> "Failed to move block: "
      [] t = "logseq_insert_batch_blocks" -> "Failed to insert batch blocks: "
      [] t = "logseq_block_property" -> "Failed to access block property: "
      [] t = "logseq_search" -> "Search failed: "
      [] t = "logseq_create_journal" -> "Failed to create journal page: "
      [] t = "logseq_get_graph_info" -> "Failed to get graph info: "
      [] t = "logseq_get_all_tags" -> "Failed to get tags: "

\* ... and after it.
FailureSuffix(t) ==
    IF t = "logseq_list_pages"
    THEN ". Ensure Logseq is running with HTTP APIs enabled." ELSE ""

\* A catch clause that throws the error on.
HandlerCatchRethrow(t, error) == Throw(error)

\* The catch clause of a handler.
HandlerCatch(t, error) ==
    Return(errorResponse(FailurePrefix(t) \o extractErrorMessage(error)
                         \o FailureSuffix(t)))

Last(q) == q[Len(q)]

\* The decoded values of the calls that succeeded.
ValuesOf(outs) == [k \in DOMAIN outs |-> outs[k].value]

\* The step of a try block, or what the catch clause makes of its exception.
Caught(t, step) == IF step.kind = "throw" THEN HandlerCatch(t, step.error) ELSE step

\* A handler that starts over, once, when a call of its first run has failed.
HandlerRetrying(t, p, outs) ==
    LET Failed(k) == ~outs[k].ok
        first == IF \E k \in DOMAIN outs : Failed(k)
                 THEN CHOOSE k \in DOMAIN outs : Failed(k) /\ \A j \in 1..(k - 1) : ~Failed(j)
                 ELSE 0
        again == IF first = 0 THEN outs ELSE SubSeq(outs, first + 1, Len(outs))
    IN  IF Len(again) > 0 /\ ~Last(again).ok THEN HandlerCatch(t, Last(again).error)
        ELSE Caught(t, TryBlock(t, p, ValuesOf(again)))

\* A handler resumed after the outcomes outs of its calls so far: a failed call
\* throws at its await, into the catch clause; so does an exception of the
\* try block itself.
Handler(t, p, outs) ==
    IF Len(outs) > 0 /\ ~Last(outs).ok THEN HandlerCatch(t, Last(outs).error)
    ELSE Caught(t, TryBlock(t, p, ValuesOf(outs)))

\* ------------------------------------------------------------- environment
\* What the caller may send and what the remote application may answer.

PageHome ==
    Obj([id |-> Num(1), uuid |-> Str("u-home"), name |-> Str("home"),
         originalName |-> Str("Home")] @@ ("journal?" :> Bool(FALSE)))
PageJournal ==
    Obj([id |-> Num(2), uuid |-> Str("u-jrnl"), name |-> Str("nov 5th, 2026"),
         originalName |-> Str("Nov 5th, 2026")] @@ ("journal?" :> Bool(TRUE)))
PageProjA ==
    Obj([id |-> Num(3), uuid |-> Str("u-proja"), name |-> Str("proj/a"),
         originalName |-> Str("Proj/A"), namespace |-> Obj([id |-> Num(9)])]
        @@ ("journal?" :> Bool(FALSE)))

\* A page whose title alone fills the character budget.
PageLong ==
    Obj([id |-> Num(4), uuid |-> Str("u-long"), name |-> Str("proj/long"),
         originalName |-> Str(Repeat("N", CHARACTER_LIMIT))]
        @@ ("journal?" :> Bool(FALSE)))

Block(uuid, content, children) ==
    Obj([uuid |-> Str(uuid), content |-> Str(content), children |-> Arr(children)])
BlockLeaf == Block("b-2", "B", <<>>)
BlockTree == Block("b-1", "A", <<BlockLeaf>>)
BlockHollow == Block("b-3", "  ", <<BlockLeaf>>)
\* A block whose content alone is longer than the character budget.
BlockLong == Block("b-4", Repeat("w", CHARACTER_LIMIT + CHARACTER_LIMIT), <<>>)

GraphInfo == Obj([name |-> Str("notes"), path |-> Str("/g"), url |-> Str("logseq_local_/g")])

\* The decoded values a 2xx reply to each remote method may carry.
ReplyValues(method) ==
    CASE method = "logseq.Editor.getAllPages" ->
            {JNull, Arr(<<>>), Arr(<<PageHome, PageJournal, PageProjA>>),
             Arr(<<PageLong, PageHome>>)}
      [] method = "logseq.Editor.getPage" -> {JNull, PageHome}
      [] method = "logseq.Editor.getPageBlocksTree" ->
            {JNull, Arr(<<>>), Arr(<<BlockTree>>), Arr(<<BlockHollow>>), Arr(<<BlockLong>>)}
      [] method = "logseq.Editor.getPageLinkedReferences" ->
            {JNull, Arr(<<>>), Arr(<<Arr(<<PageHome, Arr(<<BlockLeaf>>)>>)>>)}
      [] method = "logseq.Editor.createPage" -> {JNull, PageHome}
      [] method = "logseq.Editor.createJournalPage" -> {JNull, PageJournal}
      [] method = "logseq.Editor.getBlock" -> {JNull, BlockLeaf, BlockTree}
      [] method \in {"logseq.Editor.insertBlock", "logseq.Editor.appendBlockInPage"} ->
            {JNull, BlockLeaf}
      [] method = "logseq.Editor.insertBatchBlock" -> {JNull, Arr(<<BlockLeaf>>)}
      [] method = "logseq.Editor.getBlockProperties" ->
            {JNull, Obj([status |-> Str("todo"), priority |-> Str("a")])}
      [] method = "logseq.App.search" ->
            {JNull, Obj([blocks |-> Arr(<<>>), pages |-> Arr(<<>>)]),
             Obj([blocks |-> Arr(<<BlockLeaf>>), pages |-> Arr(<<Str("Home")>>)])}
      [] method = "logseq.App.getCurrentGraph" -> {JNull, GraphInfo}
      [] method = "logseq.Editor.getAllTags" -> {JNull, Arr(<<>>), Arr(<<PageHome>>)}
      [] OTHER -> {JNull}

\* The status lines the remote may send.
Statuses == {200, 401, 500}
StatusText(status) ==
    CASE status = 200 -> "OK"
      [] status = 401 -> "Unauthorized"
      [] status = 500 -> "Internal Server Error"
\* response.ok
ResponseOk(status) == status >= 200 /\ status <= 299

\* A body text longer than the character budget.
LongBody == Repeat("e", CHARACTER_LIMIT + CHARACTER_LIMIT)

\* The body texts of a non-2xx reply.
ErrorBodies == {"", "invalid token", LongBody}

\* Block arrays a caller may pass to logseq_insert_batch_blocks.
BatchLeaf(content) == Obj([content |-> Str(content)])
BatchCandidates ==
    {Arr(<<>>),
     Arr(<<BatchLeaf("a")>>),
     Arr(<<Obj([content |-> Str("a"),
                properties |-> Obj([status |-> Str("todo")]),
                children |-> Arr(<<BatchLeaf("b")>>)])>>),
     Arr(<<Obj([content |-> Str("a"),
                children |-> Arr(<<Obj([content |-> Str("b"),
                                        children |-> Arr(<<BatchLeaf("c")>>)])>>)])>>),
     Arr(<<Obj([properties |-> EmptyObj])>>),
     Str("a")}

\* The values tried for a parameter of schema s: values on both sides of each
\* of its constraints, and a value of another type.
Candidates(s) ==
    CASE s.type = "number" ->
            {Num(s.min - 1), Num(s.min), Num(s.min + 1), NumHalf(s.min), Str("7"), JNull}
            \cup (IF s.hasMax THEN {Num(s.max), Num(s.max + 1)} ELSE {})
      [] s.type = "string" ->
            {Str(""), Str("Proj"), Num(7)}
            \cup (IF s.hasMax THEN {Str(Repeat("q", s.max)), Str(Repeat("q", s.max + 1))}
                  ELSE {})
      [] s.type = "boolean" -> {Bool(TRUE), Bool(FALSE), Str("true")}
      [] s.type = "record" -> {EmptyObj, Obj([status |-> Str("todo")]), Arr(<<>>)}
      [] s.type = "enum" -> {Str(v) : v \in s.values} \cup {Str("html"), Num(7)}
      [] s.type = "unknown" -> {Str("done"), JNull}
      [] s.type = "array" -> BatchCandidates

\* A key no schema declares.
UnknownKey == "unexpected"

Extend(f, k, v) == [j \in DOMAIN f \cup {k} |-> IF j = k THEN v ELSE f[j]]

RECURSIVE RawObjects(_, _)
\* Every raw parameter object over the keys `keys`, each key either left out or
\* given one of its candidates; a property key is also one the block has.
RawObjects(shape, keys) ==
    IF keys = {} THEN {<<>>}
    ELSE LET k == CHOOSE j \in keys : TRUE
             rest == RawObjects(shape, keys \ {k})
             cands == IF k \in DOMAIN shape
                      THEN Candidates(shape[k].schema)
                           \cup (IF k = "key" THEN {Str("status")} ELSE {})
                      ELSE {Str("x")}
         IN  rest \cup {Extend(f, k, v) : f \in rest, v \in cands}

RawInputs(t) ==
    RawObjects(InputSchema(t).shape, DOMAIN InputSchema(t).shape \cup {UnknownKey})

\* ------------------------------------------------------------ the server

\* The number of invocations the server may be handling at once.
NSlots == 2
Slots == 1..NSlots
\* The history counter `failures` stops counting here.
MaxFailures == 2

VARIABLES
    proc,       \* "starting", "running" or "exited": the process
    client,     \* the LogseqClient built at start-up
    pc,         \* per slot: "idle", "wait" (inside client.call) or "done"
    tool,       \* per slot: the tool invoked
    raw,        \* per slot: the raw parameter object
    accepted,   \* per slot: whether the input schema accepted it
    params,     \* per slot: the validated parameters
    sent,       \* per slot: the requests handed to fetch, in order
    resp,       \* per slot: the status line of the reply being read, if any
    timer,      \* per slot: "off" or "armed", the timer of the call in progress
    outcomes,   \* per slot: how each call of the invocation ended, in order
    result,     \* per slot: the result returned to the caller
    failures,   \* history: results with isError returned so far (capped)
    probe       \* the input and output of a formatter applied on its own

serverVars == <<proc, client, pc, tool, raw, accepted, params, sent, resp, timer,
                outcomes, result, failures>>
vars == <<serverVars, probe>>

NoProbe == [fn |-> "none", input |-> "", output |-> "", done |-> FALSE]

NoClient == [token |-> "", baseUrl |-> ""]
NoResp == [status |-> 0, statusText |-> ""]
NoResult == [isError |-> FALSE, text |-> "", none |-> TRUE]
NoError == [isErr |-> FALSE, dom |-> FALSE, name |-> "", message |-> ""]

\* How a call ended: by |-> "reply" (the remote's reply was read to its end),
\* "network" (fetch or the body stream failed) or "timeout" (the timer fired);
\* phase |-> "pending" (no status line yet) or "body"; status of the reply, or 0.
Resolved(v, status) ==
    [ok |-> TRUE, value |-> v, error |-> NoError, by |-> "reply", phase |-> "body",
     status |-> status]
Rejected(e, by, phase, status) ==
    [ok |-> FALSE, value |-> JNull, error |-> CallCatch(e), by |-> by,
     phase |-> phase, status |-> status]

\* What the protocol layer returns when the input schema rejects the arguments;
\* the handler is not run.
ValidationError(t) ==
    errorResponse("MCP error -32602: Invalid arguments for tool " \o t)

\* An exception that leaves a handler: the protocol layer answers for it.
Escaped(error) ==
    [isError |-> TRUE, text |-> extractErrorMessage(error), escaped |-> TRUE]

\* A process that gives up on the first failed tool call.
FatalOnToolFailure(event) == event \in {"no_token", "server_error", "tool_failure"}

\* Whether the process exits on an event: it does when the token is missing and
\* when connecting the transport fails, and on nothing a tool does.
Fatal(event) == event \in {"no_token", "server_error"}

ServerInit ==
    /\ proc = "starting"
    /\ client = NoClient
    /\ pc = [i \in Slots |-> "idle"]
    /\ tool = [i \in Slots |-> ""]
    /\ raw = [i \in Slots |-> <<>>]
    /\ accepted = [i \in Slots |-> FALSE]
    /\ params = [i \in Slots |-> <<>>]
    /\ sent = [i \in Slots |-> <<>>]
    /\ resp = [i \in Slots |-> NoResp]
    /\ timer = [i \in Slots |-> "off"]
    /\ outcomes = [i \in Slots |-> <<>>]
    /\ result = [i \in Slots |-> NoResult]
    /\ failures = 0

Init == ServerInit /\ probe = NoProbe

\* The values of the environment variables LOGSEQ_API_TOKEN and LOGSEQ_API_URL.
TokenValues == {Undef, Str(""), Str("secret")}
UrlValues == {Undef, Str("http://localhost:9//")}

\* The module body of the entry point: configuration, client, transport.
Start(token, url, connected) ==
    /\ proc = "starting"
    /\ LET event == IF ~Truthy(token) THEN "no_token"
                    ELSE IF ~connected THEN "server_error" ELSE "serving"
       IN  /\ proc' = IF Fatal(event) THEN "exited" ELSE "running"
           /\ client' = IF Truthy(token) THEN LogseqClient(token.str, url) ELSE client
    /\ UNCHANGED <<pc, tool, raw, accepted, params, sent, resp, timer, outcomes,
                   result, failures, probe>>

\* What the protocol layer answers with for a step that ends the handler.
Answer(step) == IF step.kind = "return" THEN step.result ELSE Escaped(step.error)

\* A server with one timer for all the calls in flight: arming it for one call
\* arms it for all, clearing it after one call clears it for all.
StepSharedTimer(i, outs, step) ==
    /\ outcomes' = [outcomes EXCEPT ![i] = outs]
    /\ resp' = [resp EXCEPT ![i] = NoResp]
    /\ timer' = [j \in Slots |-> IF step.kind = "call" THEN "armed" ELSE "off"]
    /\ IF step.kind = "call"
       THEN /\ pc' = [pc EXCEPT ![i] = "wait"]
            /\ sent' = [sent EXCEPT ![i] =
                          Append(@, HttpRequest(client, step.call.method,
                                                step.call.args))]
            /\ result' = result
            /\ proc' = proc
       ELSE /\ pc' = [pc EXCEPT ![i] = "done"]
            /\ sent' = sent
            /\ result' = [result EXCEPT ![i] = Answer(step)]
            /\ proc' = IF Answer(step).isError /\ Fatal("tool_failure")
                       THEN "exited" ELSE proc

\* Slot i takes the step its handler has come to after the outcomes outs.
Step(i, outs, step) ==
    /\ outcomes' = [outcomes EXCEPT ![i] = outs]
    /\ resp' = [resp EXCEPT ![i] = NoResp]
    /\ IF step.kind = "call"
       THEN /\ pc' = [pc EXCEPT ![i] = "wait"]
            /\ sent' = [sent EXCEPT ![i] =
                          Append(@, HttpRequest(client, step.call.method,
                                                step.call.args))]
            /\ timer' = [timer EXCEPT ![i] = "armed"]
            /\ result' = result
            /\ proc' = proc
       ELSE /\ pc' = [pc EXCEPT ![i] = "done"]
            /\ sent' = sent
            /\ timer' = [timer EXCEPT ![i] = "off"]
            /\ result' = [result EXCEPT ![i] = Answer(step)]
            /\ proc' = IF Answer(step).isError /\ Fatal("tool_failure")
                       THEN "exited" ELSE proc

\* The handler of slot i runs on from the outcomes outs: up to its next call,
\* which arms that call's timer and hands the request to fetch, or to its result.
Advance(i, t, p, outs) == Step(i, outs, Handler(t, p, outs))

\* A tools/call request arrives: the arguments are validated against the tool's
\* input schema; when accepted the handler starts.
Invoke(i, t, r) ==
    /\ proc = "running"
    /\ pc[i] = "idle"
    /\ tool' = [tool EXCEPT ![i] = t]
    /\ raw' = [raw EXCEPT ![i] = r]
    /\ LET parsed == ZParse(InputSchema(t), Obj(r))
       IN  IF parsed.ok
           THEN /\ accepted' = [accepted EXCEPT ![i] = TRUE]
                /\ params' = [params EXCEPT ![i] = parsed.value.obj]
                /\ Advance(i, t, parsed.value.obj, <<>>)
           ELSE /\ accepted' = [accepted EXCEPT ![i] = FALSE]
                /\ params' = [params EXCEPT ![i] = <<>>]
                /\ pc' = [pc EXCEPT ![i] = "done"]
                /\ result' = [result EXCEPT ![i] = ValidationError(t)]
                /\ proc' = IF Fatal("invalid_arguments") THEN "exited" ELSE proc
                /\ UNCHANGED <<sent, resp, timer, outcomes>>
    /\ UNCHANGED <<client, failures, probe>>

\* The call in progress of slot i ends with outcome: finally clearTimeout, and
\* the handler runs on.
Settle(i, outcome) ==
    /\ Advance(i, tool[i], params[i], Append(outcomes[i], outcome))
    /\ UNCHANGED <<client, tool, raw, accepted, params, failures, probe>>

Waiting(i) == proc = "running" /\ pc[i] = "wait"

\* The method of the request in flight.
CurrentMethod(i) == IF Len(sent[i]) = 0 THEN "" ELSE Last(sent[i]).body.method

\* fetch rejects: the connection could not be made or broke before a status line.
FetchFails(i) ==
    /\ Waiting(i) /\ resp[i] = NoResp
    /\ Settle(i, Rejected(TypeError("fetch failed"), "network", "pending", 0))

\* The status line and headers arrive: fetch resolves; call() goes on to read
\* the body (response.text() when not ok, response.json() otherwise).
ReplyStatus(i, status) ==
    /\ Waiting(i) /\ resp[i] = NoResp
    /\ resp' = [resp EXCEPT ![i] = [status |-> status, statusText |-> StatusText(status)]]
    /\ UNCHANGED <<proc, client, pc, tool, raw, accepted, params, sent, timer,
                   outcomes, result, failures, probe>>

\* The body of a 2xx reply is read to its end and is the JSON text of v.
ReplyJson(i, v) ==
    /\ Waiting(i) /\ resp[i] # NoResp /\ ResponseOk(resp[i].status)
    /\ Settle(i, Resolved(v, resp[i].status))

\* The body of a 2xx reply is read to its end and is not JSON.
ReplyNotJson(i) ==
    /\ Waiting(i) /\ resp[i] # NoResp /\ ResponseOk(resp[i].status)
    /\ Settle(i, Rejected(SyntaxError("Unexpected token < in JSON at position 0"),
                          "reply", "body", resp[i].status))

\* The body of a non-2xx reply is read to its end and is the text t.
ReplyErrorText(i, t) ==
    /\ Waiting(i) /\ resp[i] # NoResp /\ ~ResponseOk(resp[i].status)
    /\ Settle(i, Rejected(Error(ApiErrorMessage(resp[i].status, resp[i].statusText, t)),
                          "reply", "body", resp[i].status))

\* The body stream breaks: response.json() rejects; response.text() rejects too,
\* which .catch(() => "") turns into the empty text.
BodyFails(i) ==
    /\ Waiting(i) /\ resp[i] # NoResp
    /\ Settle(i, IF ResponseOk(resp[i].status)
                 THEN Rejected(TypeError("terminated"), "network", "body", resp[i].status)
                 ELSE Rejected(Error(ApiErrorMessage(resp[i].status,
                                                     resp[i].statusText, "")),
                               "network", "body", resp[i].status))

\* A timer that is cleared as soon as fetch resolves with the status line.
TimerArmedUntilHeaders(i) == timer[i] = "armed" /\ resp[i] = NoResp

\* Whether the abort timer of slot i's call can still fire: from setTimeout to
\* the finally clause's clearTimeout.
TimerArmed(i) == timer[i] = "armed"

\* What the pending promise of call() rejects with when the controller aborts.
AbortOutcome(status, statusText) ==
    LET abort == DOMException("AbortError", "This operation was aborted")
    IN  IF status = 0 THEN Rejected(abort, "timeout", "pending", 0)
        ELSE IF ResponseOk(status) THEN Rejected(abort, "timeout", "body", status)
        ELSE Rejected(Error(ApiErrorMessage(status, statusText, "")),
                      "timeout", "body", status)

\* REQUEST_TIMEOUT_MS have passed: the timer fires and aborts the controller.
Timeout(i) ==
    /\ Waiting(i) /\ TimerArmed(i)
    /\ Settle(i, AbortOutcome(resp[i].status, resp[i].statusText))

\* The result goes back to the caller; the slot is free again.
Respond(i) ==
    /\ pc[i] = "done"
    /\ pc' = [pc EXCEPT ![i] = "idle"]
    /\ tool' = [tool EXCEPT ![i] = ""]
    /\ raw' = [raw EXCEPT ![i] = <<>>]
    /\ accepted' = [accepted EXCEPT ![i] = FALSE]
    /\ params' = [params EXCEPT ![i] = <<>>]
    /\ sent' = [sent EXCEPT ![i] = <<>>]
    /\ outcomes' = [outcomes EXCEPT ![i] = <<>>]
    /\ result' = [result EXCEPT ![i] = NoResult]
    /\ failures' = IF result[i].isError /\ failures < MaxFailures
                   THEN failures + 1 ELSE failures
    /\ UNCHANGED <<proc, client, resp, timer, probe>>

\* Invocations one at a time: the whole catalog, every raw input.
Serial == {1}

\* A caller invokes some tool of the catalog with some raw parameter object.
Call(i) ==
    /\ proc = "running" /\ pc[i] = "idle"
    /\ \E t \in Tools : \E r \in RawInputs(t) : Invoke(i, t, r)

\* The remote application acts on the request in flight of slot i.
Remote(i) ==
    /\ Waiting(i)
    /\ \/ FetchFails(i)
       \/ \E status \in Statuses : ReplyStatus(i, status)
       \/ \E v \in ReplyValues(CurrentMethod(i)) : ReplyJson(i, v)
       \/ ReplyNotJson(i)
       \/ \E t \in ErrorBodies : ReplyErrorText(i, t)
       \/ BodyFails(i)

Boot ==
    \E token \in TokenValues, url \in UrlValues, connected \in BOOLEAN :
        Start(token, url, connected)

Next ==
    \/ Boot
    \/ \E i \in Serial : Call(i)
    \/ \E i \in Serial : Remote(i)
    \/ \E i \in Serial : Timeout(i)
    \/ \E i \in Serial : Respond(i)

Spec == Init /\ [][Next]_vars

\* The timer of a call in flight always fires, unless the call ends before.
FairSpec == Spec /\ \A i \in Serial : WF_vars(Timeout(i))

\* ------------------------------------------------- textResponse on its own
\* textResponse applied to texts of every length near 0 and near the limit.

\* Lengths up to MaxShort, and from MaxOver below the limit to MaxOver above it.
MaxShort == 3
MaxOver == 12

\* The first L characters of pattern repeated.
MakeText(pattern, L) == SubSeq(Repeat(pattern, L), 1, L)

TextPatterns == {"a", "xy\n"}
TextLengths ==
    (0..MaxShort) \cup ((CHARACTER_LIMIT - MaxOver)..(CHARACTER_LIMIT + MaxOver))

TruncateInit ==
    /\ ServerInit
    /\ \E pattern \in TextPatterns, L \in TextLengths :
          probe = [fn |-> "textResponse", input |-> MakeText(pattern, L),
                   output |-> "", done |-> FALSE]

ApplyTextResponse ==
    /\ probe.fn = "textResponse" /\ ~probe.done
    /\ probe' = [probe EXCEPT !.output = textResponse(probe.input).text,
                              !.done = TRUE]
    /\ UNCHANGED serverVars

TruncateNext == ApplyTextResponse

SpecTruncate == TruncateInit /\ [][TruncateNext]_vars

\* ------------------------------------------------- invocations in parallel
\* Every slot of the server takes an invocation; their calls are in flight at
\* the same time and the remote answers them in any order.

\* The server running, its client built from a token and the default URL.
ConcurrentInit ==
    /\ proc = "running"
    /\ client = LogseqClient("secret", Undef)
    /\ pc = [i \in Slots |-> "idle"]
    /\ tool = [i \in Slots |-> ""]
    /\ raw = [i \in Slots |-> <<>>]
    /\ accepted = [i \in Slots |-> FALSE]
    /\ params = [i \in Slots |-> <<>>]
    /\ sent = [i \in Slots |-> <<>>]
    /\ resp = [i \in Slots |-> NoResp]
    /\ timer = [i \in Slots |-> "off"]
    /\ outcomes = [i \in Slots |-> <<>>]
    /\ result = [i \in Slots |-> NoResult]
    /\ failures = 0
    /\ probe = NoProbe

\* The invocations made in parallel: one of two calls, one of one call.
ConcurrentInputs ==
    {[tool |-> "logseq_create_page",
      raw |-> [name |-> Str("Proj"), content |-> Str("Proj")]],
     [tool |-> "logseq_get_all_tags", raw |-> <<>>]}

ConcurrentCall(i) ==
    /\ proc = "running" /\ pc[i] = "idle"
    /\ \E c \in ConcurrentInputs : Invoke(i, c.tool, c.raw)

\* The remote answers the request in flight of slot i, in full or in part: no
\* connection, a status line, a JSON body, an empty body of a non-2xx reply.
ConcurrentRemote(i) ==
    /\ Waiting(i)
    /\ \/ FetchFails(i)
       \/ \E status \in {200, 500} : ReplyStatus(i, status)
       \/ \E v \in ReplyValues(CurrentMethod(i)) : ReplyJson(i, v)
       \/ ReplyErrorText(i, "")

ConcurrentNext ==
    \/ \E i \in Slots : ConcurrentCall(i)
    \/ \E i \in Slots : ConcurrentRemote(i)
    \/ \E i \in Slots : Timeout(i)

SpecConcurrent == ConcurrentInit /\ [][ConcurrentNext]_vars

\* ---------------------------------------------- renderBlockTree on its own
\* renderBlockTree applied to every block forest of at most MaxNodes nodes.

MaxNodes == 3

\* What a block's content may be: text, text to trim, empty, blank, missing.
NodeContents == {Str("A"), Str(" b "), Str(""), Str("  "), Undef}

\* A BlockEntity with the content c, if any, and the children given.
Node(c, children) ==
    IF IsUndef(c) THEN Obj([children |-> Arr(children)])
    ELSE Obj([content |-> c, children |-> Arr(children)])

RECURSIVE ForestsOf(_)
\* Every forest of exactly n nodes: a first tree of k nodes, then the rest.
ForestsOf(n) ==
    IF n = 0 THEN {<<>>}
    ELSE UNION {{<<Node(c, children)>> \o rest :
                    c \in NodeContents,
                    children \in ForestsOf(k - 1),
                    rest \in ForestsOf(n - k)} : k \in 1..n}

Forests == UNION {ForestsOf(n) : n \in 0..MaxNodes}

RenderInit ==
    /\ ServerInit
    /\ \E forest \in Forests :
          probe = [fn |-> "renderBlockTree", input |-> forest,
                   output |-> "", done |-> FALSE]

ApplyRenderBlockTree ==
    /\ probe.fn = "renderBlockTree" /\ ~probe.done
    /\ probe' = [probe EXCEPT !.output = renderBlockTree(probe.input, 0),
                              !.done = TRUE]
    /\ UNCHANGED serverVars

RenderNext == ApplyRenderBlockTree

SpecRender == RenderInit /\ [][RenderNext]_vars

\* ------------------------------------------- paging through logseq_list_pages
\* A caller pages through the list: logseq_list_pages with offsets 0, limit,
\* 2*limit, ..., the remote answering each getAllPages with the same list,
\* until a result comes without the more-pages note.

\* The longest remote list, and the largest limit the caller pages with.
MaxPages == 3
MaxLimit == 2

PagePool == {PageHome, PageJournal, PageProjA, PageLong}

\* The lists of up to MaxPages different pages.
PageLists ==
    UNION {{l \in [1..n -> PagePool] : \A j, k \in 1..n : l[j] = l[k] => j = k}
           : n \in 0..MaxPages}

\* text.endsWith(suffix)
EndsWith(text, suffix) ==
    /\ Len(text) >= Len(suffix)
    /\ SubSeq(text, Len(text) - Len(suffix) + 1, Len(text)) = suffix

\* The note that ends a listing with more pages to come, next the offset of
\* the next batch.
MorePagesNote(next) ==
    "_More pages available. Use offset=" \o ToString(next) \o " to see next batch._"

PagingInit ==
    /\ proc = "running"
    /\ client = LogseqClient("secret", Undef)
    /\ pc = [i \in Slots |-> "idle"]
    /\ tool = [i \in Slots |-> ""]
    /\ raw = [i \in Slots |-> <<>>]
    /\ accepted = [i \in Slots |-> FALSE]
    /\ params = [i \in Slots |-> <<>>]
    /\ sent = [i \in Slots |-> <<>>]
    /\ resp = [i \in Slots |-> NoResp]
    /\ timer = [i \in Slots |-> "off"]
    /\ outcomes = [i \in Slots |-> <<>>]
    /\ result = [i \in Slots |-> NoResult]
    /\ failures = 0
    /\ \E pages \in PageLists, limit \in 1..MaxLimit, journalOnly \in BOOLEAN,
          filter \in {<<>>, [namespace |-> Str("Proj")]} :
          probe = [fn |-> "paging",
                   input |-> [pages |-> pages, limit |-> limit,
                              filters |-> [journal_only |-> Bool(journalOnly)] @@ filter],
                   output |-> <<>>, done |-> FALSE]

\* The caller asks for the next batch: the offset is the limit times the
\* number of batches it has.
PagingCall ==
    /\ probe.fn = "paging" /\ ~probe.done /\ pc[1] = "idle"
    /\ Invoke(1, "logseq_list_pages",
              [limit |-> Num(probe.input.limit),
               offset |-> Num(Len(probe.output) * probe.input.limit)]
              @@ probe.input.filters)

\* The remote answers getAllPages: the status line, then the list, the same
\* each time.
PagingStatus == probe.fn = "paging" /\ ReplyStatus(1, 200)
PagingReply == probe.fn = "paging" /\ ReplyJson(1, Arr(probe.input.pages))

\* The caller takes the result as its next batch, and stops at a result
\* without the more-pages note.
PagingCollect ==
    /\ probe.fn = "paging" /\ ~probe.done /\ pc[1] = "done"
    /\ probe' = [probe EXCEPT
                   !.output = Append(@, result[1].text),
                   !.done = ~EndsWith(result[1].text,
                                      MorePagesNote((Len(probe.output) + 1)
                                                    * probe.input.limit))]
    /\ pc' = [pc EXCEPT ![1] = "idle"]
    /\ tool' = [tool EXCEPT ![1] = ""]
    /\ raw' = [raw EXCEPT ![1] = <<>>]
    /\ accepted' = [accepted EXCEPT ![1] = FALSE]
    /\ params' = [params EXCEPT ![1] = <<>>]
    /\ sent' = [sent EXCEPT ![1] = <<>>]
    /\ outcomes' = [outcomes EXCEPT ![1] = <<>>]
    /\ result' = [result EXCEPT ![1] = NoResult]
    /\ failures' = IF result[1].isError /\ failures < MaxFailures
                   THEN failures + 1 ELSE failures
    /\ UNCHANGED <<proc, client, resp, timer>>

PagingNext == PagingCall \/ PagingStatus \/ PagingReply \/ PagingCollect

SpecPaging == PagingInit /\ [][PagingNext]_vars

\* -------------------------------------------------------------- properties

\* What the tool descriptions document, independently of the zod schemas: the
\* arguments of each tool with their types, the arguments that are required,
\* and the defaults of those that are not.
DocumentedArgs(t) ==
    CASE t = "logseq_list_pages" ->
            [limit |-> "number", offset |-> "number", journal_only |-> "boolean",
             namespace |-> "string"]
      [] t \in {"logseq_get_page"} -> [name |-> "string", include_children |-> "boolean"]
      [] t \in {"logseq_get_page_content", "logseq_delete_page",
                "logseq_get_page_linked_references"} -> [name |-> "string"]
      [] t = "logseq_create_page" ->
            [name |-> "string", content |-> "string", properties |-> "object",
             format |-> "format", journal |-> "boolean"]
      [] t = "logseq_rename_page" -> [old_name |-> "string", new_name |-> "string"]
      [] t = "logseq_get_block" -> [id |-> "string", include_children |-> "boolean"]
      [] t = "logseq_insert_block" ->
            [page_or_block |-> "string", content |-> "string", sibling |-> "boolean",
             before |-> "boolean", properties |-> "object"]
      [] t = "logseq_append_block" ->
            [page |-> "string", content |-> "string", properties |-> "object"]
      [] t = "logseq_update_block" ->
            [id |-> "string", content |-> "string", properties |-> "object"]
      [] t = "logseq_remove_block" -> [id |-> "string"]
      [] t = "logseq_move_block" ->
            [src_id |-> "string", target_id |-> "string", before |-> "boolean",
             children |-> "boolean"]
      [] t = "logseq_insert_batch_blocks" ->
            [page_or_block |-> "string", blocks |-> "blocks", sibling |-> "boolean"]
      [] t = "logseq_block_property" -> [id |-> "string", key |-> "string", value |-> "any"]
      [] t = "logseq_search" -> [query |-> "string"]
      [] t = "logseq_create_journal" -> [date |-> "string"]
      [] t \in {"logseq_get_graph_info", "logseq_get_all_tags"} -> <<>>

\* The required arguments that must be non-empty strings ...
RequiredNonEmpty(t) ==
    DOMAIN DocumentedArgs(t)
    \cap {"name", "old_name", "new_name", "id", "page_or_block", "page", "src_id",
          "target_id", "key", "query", "date"}
\* ... and the ones that are only required.
RequiredOnly(t) ==
    IF t \in {"logseq_insert_block", "logseq_append_block", "logseq_update_block"}
    THEN {"content"}
    ELSE IF t = "logseq_insert_batch_blocks" THEN {"blocks"} ELSE {}

DocumentedDefaults(t) ==
    CASE t = "logseq_list_pages" ->
            [limit |-> Num(DEFAULT_PAGE_LIMIT), offset |-> Num(0),
             journal_only |-> Bool(FALSE)]
      [] t \in {"logseq_get_page", "logseq_get_block"} ->
            [include_children |-> Bool(FALSE)]
      [] t = "logseq_create_page" -> [format |-> Str("markdown"), journal |-> Bool(FALSE)]
      [] t = "logseq_insert_block" -> [sibling |-> Bool(FALSE), before |-> Bool(FALSE)]
      [] t = "logseq_move_block" -> [before |-> Bool(FALSE), children |-> Bool(FALSE)]
      [] t = "logseq_insert_batch_blocks" -> [sibling |-> Bool(FALSE)]
      [] OTHER -> <<>>

\* The value v is of the documented type.
OfType(type, v) ==
    CASE type = "number" -> IsNum(v)
      [] type = "string" -> IsStr(v)
      [] type = "boolean" -> IsBool(v)
      [] type = "object" -> IsObj(v)
      [] type = "format" -> IsStr(v) /\ v.str \in {"markdown", "org"}
      [] type = "blocks" ->
            /\ IsArr(v)
            /\ \A k \in DOMAIN v.arr :
                  IsObj(v.arr[k]) /\ IsStr(Get(v.arr[k], "content"))
      [] type = "any" -> TRUE

\* The raw parameter object r violates a documented constraint of tool t.
DeclaredViolation(t, r) ==
    \/ \E k \in RequiredNonEmpty(t) \cup RequiredOnly(t) : k \notin DOMAIN r
    \/ \E k \in DOMAIN r \cap DOMAIN DocumentedArgs(t) : ~OfType(DocumentedArgs(t)[k], r[k])
    \/ \E k \in DOMAIN r \cap RequiredNonEmpty(t) : IsStr(r[k]) /\ Len(r[k].str) < 1
    \/ /\ t = "logseq_list_pages" /\ "limit" \in DOMAIN r /\ IsNum(r.limit)
       /\ (r.limit.half \/ r.limit.num < 1 \/ r.limit.num > 500)
    \/ /\ t = "logseq_list_pages" /\ "offset" \in DOMAIN r /\ IsNum(r.offset)
       /\ (r.offset.half \/ r.offset.num < 0)
    \/ /\ t = "logseq_search" /\ "query" \in DOMAIN r /\ IsStr(r.query)
       /\ Len(r.query.str) > 500
    \/ /\ t = "logseq_insert_batch_blocks" /\ "blocks" \in DOMAIN r /\ IsArr(r.blocks)
       /\ Len(r.blocks.arr) = 0

\* r carries a key that is no documented argument of t.
UnknownField(t, r) == ~(DOMAIN r \subseteq DOMAIN DocumentedArgs(t))

Invoked(i) == pc[i] # "idle"
Finished(i) == pc[i] = "done"

\* The invocation of slot i was refused before its handler ran: a failure
\* result, and no request to the remote application.
RejectedUnsent(i) ==
    /\ Finished(i) /\ ~accepted[i]
    /\ Len(sent[i]) = 0 /\ Len(outcomes[i]) = 0
    /\ result[i].isError

\* C1: an invocation whose raw parameter object violates a declared constraint
\* of its tool's schema is rejected, and no request is sent to the remote.
C1_ViolationRejected ==
    \A i \in Slots :
        (Invoked(i) /\ DeclaredViolation(tool[i], raw[i])) => RejectedUnsent(i)

\* logseq_list_pages with limit = 501 has been rejected.
C1_Witness ==
    \E i \in Slots :
        /\ tool[i] = "logseq_list_pages" /\ "limit" \in DOMAIN raw[i]
        /\ raw[i].limit = Num(501) /\ DOMAIN raw[i] = {"limit"}
        /\ RejectedUnsent(i)

\* C2: a valid input is accepted, each omitted optional argument gets its
\* documented default, and each supplied argument reaches the handler unchanged.
C2_DefaultsAndPassThrough ==
    \A i \in Slots :
        (Invoked(i) /\ ~DeclaredViolation(tool[i], raw[i])
                    /\ ~UnknownField(tool[i], raw[i])) =>
            LET dflt == DocumentedDefaults(tool[i])
            IN  /\ accepted[i]
                /\ DOMAIN params[i] = DOMAIN raw[i] \cup DOMAIN dflt
                /\ \A k \in DOMAIN raw[i] : params[i][k] = raw[i][k]
                /\ \A k \in DOMAIN dflt \ DOMAIN raw[i] : params[i][k] = dflt[k]

\* C3: an invocation whose raw parameter object carries a field that is not an
\* argument of its tool is rejected with a validation error; the handler does
\* not run.
C3_UnknownFieldRejected ==
    \A i \in Slots :
        (Invoked(i) /\ UnknownField(tool[i], raw[i])) => RejectedUnsent(i)

\* logseq_get_graph_info with nothing but an unknown field has been rejected.
C3_Witness ==
    \E i \in Slots :
        /\ tool[i] = "logseq_get_graph_info"
        /\ DOMAIN raw[i] = {UnknownKey}
        /\ RejectedUnsent(i)

\* logseq_create_page was given a content that is not empty.
WithContent(i) ==
    /\ tool[i] = "logseq_create_page"
    /\ "content" \in DOMAIN raw[i] /\ IsStr(raw[i].content) /\ raw[i].content.str # ""

C5_NeverRetried ==
    \A i \in Slots :
        \A k \in DOMAIN outcomes[i] :
            ~outcomes[i][k].ok =>
                /\ k = Len(outcomes[i])
                /\ Len(sent[i]) = k
                /\ Finished(i)
                /\ result[i].isError

\* The createPage request of logseq_create_page with a content has failed, and
\* nothing was sent after it.
C5_Witness ==
    \E i \in Slots :
        /\ WithContent(i) /\ Finished(i)
        /\ Len(outcomes[i]) = 1 /\ ~outcomes[i][1].ok
        /\ Len(sent[i]) = 1

\* slot i's last remote call has failed
CallFailed(i) == Len(outcomes[i]) > 0 /\ ~Last(outcomes[i]).ok

\* C6: when a remote call of a handler has failed (non-2xx status, a 2xx body
\* that is not JSON, a network error, a timeout), the handler returns a result
\* marked isError whose text contains the message of the error; and no
\* exception ever leaves a handler.
C6_FailureResult ==
    \A i \in Slots :
        /\ Finished(i) => "escaped" \notin DOMAIN result[i]
        /\ CallFailed(i) =>
              /\ Finished(i)
              /\ result[i].isError
              /\ Last(outcomes[i]).error.message # ""
              /\ Includes(result[i].text, Last(outcomes[i]).error.message)

\* A 2xx reply that was not JSON has become a failure result.
C6_Witness ==
    \E i \in Slots :
        /\ Finished(i) /\ CallFailed(i)
        /\ Last(outcomes[i]).by = "reply" /\ Last(outcomes[i]).status = 200
        /\ result[i].isError

\* An idle slot holds nothing of the invocations before.
IdleClean(i) ==
    pc[i] = "idle" =>
        /\ tool[i] = "" /\ raw[i] = <<>> /\ ~accepted[i] /\ params[i] = <<>>
        /\ sent[i] = <<>> /\ outcomes[i] = <<>> /\ result[i] = NoResult

\* C7: once the server runs, no step ends it or changes its client, whatever
\* failures the invocations end with; and the state a later invocation starts
\* from is the one the first invocation started from.
C7_FailuresNotFatal ==
    /\ [](proc = "running" => \A i \in Slots : IdleClean(i))
    /\ [][proc = "running" => (proc' = "running" /\ client' = client)]_vars

\* After MaxFailures failed invocations, one more has ended well.
C7_Witness ==
    /\ proc = "running"
    /\ failures = MaxFailures
    /\ \E i \in Slots : Finished(i) /\ accepted[i] /\ ~result[i].isError

\* C8 as stated: a call ended by its timer fails with the timeout message, in
\* whatever phase of the reply the timer fired.
C8_TimeoutMessage ==
    \A i \in Slots :
        \A k \in DOMAIN outcomes[i] :
            outcomes[i][k].by = "timeout" =>
                /\ outcomes[i][k].error.message = TimeoutMessage
                /\ StartsWith(TimeoutMessage, "Logseq API request timed out after 30000ms")

\* C9: every invocation eventually ends with a result.
C9_EventuallyEnds ==
    \A i \in Slots : Invoked(i) ~> Finished(i)

\* An invocation has ended because the timer fired while the body was stalled.
C9_Witness ==
    \E i \in Slots :
        /\ Finished(i) /\ CallFailed(i)
        /\ Last(outcomes[i]).by = "timeout" /\ Last(outcomes[i]).phase = "body"
        /\ result[i].isError

\* C10: textResponse returns a text of at most CHARACTER_LIMIT characters as it
\* is, and a longer text of length L as its first CHARACTER_LIMIT characters
\* followed by the note that L - CHARACTER_LIMIT characters were omitted.
TruncationNote(n) ==
    "\n\n[Response truncated - " \o ToString(n) \o " characters omitted]"

C10_Truncate ==
    probe.done =>
        LET L == Len(probe.input)
            out == probe.output
        IN  IF L <= 100000 THEN out = probe.input
            ELSE /\ Len(out) = 100000 + Len(TruncationNote(L - 100000))
                 /\ SubSeq(out, 1, 100000) = SubSeq(probe.input, 1, 100000)
                 /\ SubSeq(out, 100001, Len(out)) = TruncationNote(L - 100000)

\* A text of more than CHARACTER_LIMIT characters has been truncated.
C10_Witness ==
    /\ probe.done
    /\ Len(probe.input) = CHARACTER_LIMIT + MaxOver
    /\ Len(probe.output) < Len(probe.input) + Len(TruncationNote(MaxOver))
    /\ probe.output # probe.input

\* The longest a bounded text may be: the budget and the longest note.
BoundedLength ==
    CHARACTER_LIMIT + Len(TruncationNote(CHARACTER_LIMIT * 1000))

\* C11: the text of every result a handler returns, success or failure, is no
\* longer than the character budget plus the note.
C11_BoundedText ==
    \A i \in Slots : Finished(i) => Len(result[i].text) <= BoundedLength

\* A success text that would have passed the budget was cut, note appended.
C11_Witness ==
    \E i \in Slots :
        /\ Finished(i) /\ accepted[i] /\ ~result[i].isError
        /\ tool[i] = "logseq_get_page_content"
        /\ Len(result[i].text) > CHARACTER_LIMIT
        /\ Len(result[i].text) <= BoundedLength

\* The rendering under test: a forest and what renderBlockTree made of it.
Rendered == probe.fn = "renderBlockTree" /\ probe.done

\* The trimmed content of a node, "" when it has none.
TrimmedContent(node) ==
    IF IsStr(Get(node, "content")) THEN Trim(Get(node, "content").str) ELSE ""

ChildrenOf(node) ==
    IF IsArr(Get(node, "children")) THEN Get(node, "children").arr ELSE <<>>

RECURSIVE PreOrder(_, _)
\* The nodes of a forest in pre-order, each with its depth.
PreOrder(forest, d) ==
    IF Len(forest) = 0 THEN <<>>
    ELSE <<[node |-> forest[1], depth |-> d]>>
         \o PreOrder(ChildrenOf(forest[1]), d + 1)
         \o PreOrder(Tail(forest), d)

\* The line of a node at depth d: 2*d spaces, "- ", the trimmed content.
NodeLine(e) == Repeat(" ", 2 * e.depth) \o "- " \o TrimmedContent(e.node)

HasContent(e) == TrimmedContent(e.node) # ""

\* The lines of the nodes with content, in pre-order.
ExpectedLines(forest) ==
    LET shown == SelectSeq(PreOrder(forest, 0), HasContent)
    IN  [k \in DOMAIN shown |-> NodeLine(shown[k])]

RECURSIVE SplitLines(_)
\* text.split("\n")
SplitLines(text) ==
    LET breaks == {k \in 1..Len(text) : SubSeq(text, k, k) = "\n"}
    IN  IF breaks = {} THEN <<text>>
        ELSE LET k == CHOOSE j \in breaks : \A h \in breaks : j <= h
             IN  <<SubSeq(text, 1, k - 1)>> \o SplitLines(SubSeq(text, k + 1, Len(text)))

\* The lines of a text; the empty text has none.
LinesOf(text) == IF text = "" THEN <<>> ELSE SplitLines(text)

NotEmpty(line) == line # ""

\* C12: renderBlockTree emits, in pre-order, for each node at depth d whose
\* trimmed content is not empty the line of 2*d spaces, "- " and that content,
\* joined by "\n": these are the lines of the output that are not empty, and
\* the whole output when every node has content.
C12_PreOrderLines ==
    Rendered =>
        /\ SelectSeq(LinesOf(probe.output), NotEmpty) = ExpectedLines(probe.input)
        /\ (\A k \in DOMAIN PreOrder(probe.input, 0) :
                HasContent(PreOrder(probe.input, 0)[k]))
              => probe.output = Join(ExpectedLines(probe.input), "\n")

\* [{content: "A", children: [{content: " b "}]}] was rendered as "- A\n  - b".
C12_Witness ==
    /\ Rendered
    /\ probe.input = <<Node(Str("A"), <<Node(Str(" b "), <<>>)>>)>>
    /\ probe.output = "- A\n  - b"

RECURSIVE Fill(_)
\* The forest with a content given to every node that has none.
Fill(forest) ==
    [k \in DOMAIN forest |->
        Node(IF TrimmedContent(forest[k]) = "" THEN Str("#")
             ELSE Get(forest[k], "content"),
             Fill(ChildrenOf(forest[k])))]

RECURSIVE KeepShown(_, _)
\* Of one line per node, the lines of the nodes that have content.
KeepShown(lines, nodes) ==
    IF Len(lines) = 0 \/ Len(nodes) = 0 THEN <<>>
    ELSE (IF HasContent(nodes[1]) THEN <<lines[1]>> ELSE <<>>)
         \o KeepShown(Tail(lines), Tail(nodes))

\* A node without content that has children.
Hollow(e) == ~HasContent(e) /\ Len(ChildrenOf(e.node)) > 0

\* C13: a node without content (empty, blank or missing) produces no line of
\* its own, and everything below it is rendered at the depth it has in the
\* forest: the output is the rendering of the forest with every such node given
\* a content, less the lines of those nodes.
C13_HollowParent ==
    Rendered =>
        LET nodes == PreOrder(probe.input, 0)
            full == LinesOf(renderBlockTree(Fill(probe.input), 0))
        IN  /\ Len(full) = Len(nodes)
            /\ SelectSeq(LinesOf(probe.output), NotEmpty) = KeepShown(full, nodes)

\* A leaf under two ancestors without content was rendered at depth 2.
C13_Witness ==
    /\ Rendered
    /\ probe.input = <<Node(Str(""), <<Node(Undef, <<Node(Str("A"), <<>>)>>)>>)>>
    /\ Hollow(PreOrder(probe.input, 0)[1]) /\ Hollow(PreOrder(probe.input, 0)[2])
    /\ probe.output = "    - A"

\* C14: for contents without line breaks, the output has exactly one line per
\* node with content and no other line: as many lines as such nodes (the empty
\* text when there are none), and no line is empty.
C14_OneLinePerNode ==
    Rendered =>
        LET shown == SelectSeq(PreOrder(probe.input, 0), HasContent)
            lines == LinesOf(probe.output)
        IN  /\ Len(lines) = Len(shown)
            /\ \A k \in DOMAIN lines : lines[k] # ""
            /\ Len(shown) = 0 => probe.output = ""

\* A subtree of nodes without content next to a node with content was rendered.
C14_Witness ==
    /\ Rendered
    /\ probe.input = <<Node(Str(""), <<Node(Str(""), <<>>)>>), Node(Str("A"), <<>>)>>
    /\ probe.output = "\n- A"

\* "Logseq API error s: t", t the body text, or the status text for no text.
ExpectedApiError(s, t) ==
    "Logseq API error " \o ToString(s) \o ": "
    \o (IF t = "" THEN (IF s = 401 THEN "Unauthorized" ELSE "Internal Server Error")
        ELSE t)

\* slot i's last call ended on a reply with a status that is not 2xx
NotOkReply(i) ==
    /\ CallFailed(i)
    /\ Last(outcomes[i]).status # 0
    /\ ~(Last(outcomes[i]).status \in 200..299)

\* C15: a call answered with a non-2xx status s fails with the message
\* "Logseq API error s: t", t being the body text of the reply when there is
\* one and the status text when the body is empty or cannot be read; the
\* failure result of the tool contains that message and so the status.
C15_StatusError ==
    /\ [](\A i \in Slots :
            NotOkReply(i) =>
                LET last == Last(outcomes[i])
                IN  /\ \E t \in ErrorBodies :
                          last.error.message = ExpectedApiError(last.status, t)
                    /\ last.by # "reply" =>
                          last.error.message = ExpectedApiError(last.status, "")
                    /\ result[i].isError
                    /\ Includes(result[i].text, last.error.message)
                    /\ Includes(result[i].text, ToString(last.status)))
    /\ [][\A i \in Serial : \A t \in ErrorBodies :
            ReplyErrorText(i, t) =>
                Last(outcomes'[i]).error.message = ExpectedApiError(resp[i].status, t)]_vars

\* A 401 reply with a body text has become a failure result that carries both.
C15_Witness ==
    \E i \in Slots :
        /\ NotOkReply(i) /\ Finished(i)
        /\ Last(outcomes[i]).by = "reply" /\ Last(outcomes[i]).status = 401
        /\ Includes(result[i].text, "Logseq API error 401: invalid token")

\* The endpoint for each value LOGSEQ_API_URL takes here: unset, and
\* "http://localhost:9//".
ExpectedEndpoints == {"http://127.0.0.1:12315/api", "http://localhost:9/api"}

\* The remote methods that take no argument.
NoArgumentMethods ==
    {"logseq.Editor.getAllPages", "logseq.Editor.getAllTags", "logseq.App.getCurrentGraph"}

\* C16: every request sent is a POST to <base URL without trailing slashes>/api
\* with the header Authorization: Bearer <token> and a JSON body of exactly the
\* fields method, a string, and args, an array, empty for a method without
\* arguments.
C16_RequestShape ==
    \A i \in Slots :
        \A k \in DOMAIN sent[i] :
            LET req == sent[i][k]
            IN  /\ req.verb = "POST"
                /\ req.url \in ExpectedEndpoints
                /\ req.url = client.baseUrl \o "/api"
                /\ req.authorization = "Bearer secret"
                /\ req.contentType = "application/json"
                /\ DOMAIN req.body = {"method", "args"}
                /\ StartsWith(req.body.method, "logseq.")
                /\ DOMAIN req.body.args = 1..Len(req.body.args)
                /\ \A a \in DOMAIN req.body.args : ~IsUndef(req.body.args[a])
                /\ req.body.method \in NoArgumentMethods => req.body.args = <<>>

\* A request for a method without arguments went to a base URL that was
\* configured with trailing slashes.
C16_Witness ==
    \E i \in Slots :
        /\ Len(sent[i]) = 1
        /\ sent[i][1].url = "http://localhost:9/api"
        /\ sent[i][1].body.method = "logseq.Editor.getAllTags"
        /\ sent[i][1].body.args = <<>>

\* Everything the server holds for the invocation of slot i.
SlotState(i) ==
    <<pc[i], tool[i], raw[i], accepted[i], params[i], sent[i], resp[i], timer[i],
      outcomes[i], result[i]>>

\* The step the handler of slot i comes to, run alone on its own parameters
\* and the first k outcomes of its own calls.
AloneStep(i, k) == Handler(tool[i], params[i], SubSeq(outcomes[i], 1, k))

\* What slot i has sent and returned is what its handler sends and returns
\* when run alone on the same parameters and the same replies.
AsAlone(i) ==
    /\ Len(sent[i]) = Len(outcomes[i]) + (IF pc[i] = "wait" THEN 1 ELSE 0)
    /\ \A k \in DOMAIN sent[i] :
          /\ AloneStep(i, k - 1).kind = "call"
          /\ sent[i][k] = HttpRequest(client, AloneStep(i, k - 1).call.method,
                                      AloneStep(i, k - 1).call.args)
    /\ pc[i] = "wait" => timer[i] = "armed"
    /\ Finished(i) =>
          /\ AloneStep(i, Len(outcomes[i])).kind = "return"
          /\ result[i] = AloneStep(i, Len(outcomes[i])).result

\* C17: invocations share no mutable state. Whatever the interleaving, each
\* invocation has sent and returned what it sends and returns alone on its own
\* parameters and the replies to its own requests; and a step of one
\* invocation (its timeout among them) changes nothing of another: each call
\* has its own timer, whose firing ends that call only.
C17_NoSharedState ==
    /\ [](\A i \in Slots : (Invoked(i) /\ accepted[i]) => AsAlone(i))
    /\ [][\A i \in Slots :
            SlotState(i)' # SlotState(i) =>
                \A j \in Slots \ {i} : SlotState(j)' = SlotState(j)]_vars

\* The timer of one invocation has ended its call while the call of another
\* invocation, sent before, is still in flight with its timer armed.
C17_Witness ==
    \E i, j \in Slots :
        /\ i # j
        /\ Finished(i) /\ CallFailed(i) /\ Last(outcomes[i]).by = "timeout"
        /\ pc[j] = "wait" /\ timer[j] = "armed" /\ Len(sent[j]) = 2
        /\ resp[j] # NoResp

\* slot i runs logseq_block_property on accepted parameters
PropertyCall(i) == Invoked(i) /\ accepted[i] /\ tool[i] = "logseq_block_property"

\* slot i has ended after a call that succeeded
EndedWell(i) == Finished(i) /\ Len(outcomes[i]) > 0 /\ Last(outcomes[i]).ok

\* C18: logseq_block_property with a value makes one remote call,
\* logseq.Editor.upsertBlockProperty with [id, key, value], and returns a
\* confirmation; without a value it makes one remote call,
\* logseq.Editor.getBlockProperties with [id], none that mutates, and returns
\* the properties the remote replied with.
C18_BlockProperty ==
    \A i \in Slots :
        PropertyCall(i) =>
            /\ Len(sent[i]) = 1
            /\ IF "value" \in DOMAIN raw[i]
               THEN /\ sent[i][1].body.method = "logseq.Editor.upsertBlockProperty"
                    /\ sent[i][1].body.args = <<raw[i].id, raw[i].key, raw[i].value>>
                    /\ EndedWell(i) =>
                          result[i] = [isError |-> FALSE,
                                       text |-> "Property '" \o raw[i].key.str
                                                \o "' set on block '"
                                                \o raw[i].id.str \o "'."]
               ELSE /\ sent[i][1].body.method = "logseq.Editor.getBlockProperties"
                    /\ sent[i][1].body.args = <<raw[i].id>>
                    /\ EndedWell(i) =>
                          result[i] = [isError |-> FALSE,
                                       text |-> Stringify(Last(outcomes[i]).value, 0)]

\* The value null was given, and written.
C18_Witness ==
    \E i \in Slots :
        /\ PropertyCall(i) /\ EndedWell(i)
        /\ "value" \in DOMAIN raw[i] /\ raw[i].value = JNull
        /\ sent[i][1].body.args = <<Str("Proj"), Str("status"), JNull>>
        /\ result[i].text = "Property 'status' set on block 'Proj'."

\* C19: logseq_block_property without a value returns the current value of the
\* one property named by key: the value of that property when the block has
\* it, and nothing of the block's other properties.
C19_SingleProperty ==
    \A i \in Slots :
        (PropertyCall(i) /\ EndedWell(i) /\ "value" \notin DOMAIN raw[i]
                         /\ IsObj(Last(outcomes[i]).value)) =>
            LET props == Last(outcomes[i]).value.obj
                key == raw[i].key.str
            IN  /\ key \in DOMAIN props =>
                      Includes(result[i].text, Stringify(props[key], 0))
                /\ \A other \in DOMAIN props \ {key} :
                      ~Includes(result[i].text, "\"" \o other \o "\"")

\* The property "status" of a block that has two properties was asked for.
C19_Witness ==
    \E i \in Slots :
        /\ PropertyCall(i) /\ EndedWell(i) /\ "value" \notin DOMAIN raw[i]
        /\ raw[i].key = Str("status")
        /\ IsObj(Last(outcomes[i]).value)
        /\ DOMAIN Last(outcomes[i]).value.obj = {"status", "priority"}
        /\ Includes(result[i].text, "\"priority\"")


\* slot i runs logseq_insert_batch_blocks on accepted parameters
BatchCall(i) == Invoked(i) /\ accepted[i] /\ tool[i] = "logseq_insert_batch_blocks"

\* C20: the blocks sent to logseq.Editor.insertBatchBlock are the blocks the
\* caller supplied, content, properties and children kept at every depth.
C20_NestedChildrenKept ==
    \A i \in Slots :
        BatchCall(i) =>
            /\ Len(sent[i]) = 1
            /\ sent[i][1].body.method = "logseq.Editor.insertBatchBlock"
            /\ sent[i][1].body.args[1] = raw[i].page_or_block
            /\ sent[i][1].body.args[2] = raw[i].blocks

\* A block with a child and a grandchild was accepted, and sent without the
\* grandchild.
C20_Witness ==
    \E i \in Slots :
        /\ BatchCall(i) /\ Len(sent[i]) = 1
        /\ raw[i].blocks =
              Arr(<<Obj([content |-> Str("a"),
                         children |-> Arr(<<Obj([content |-> Str("b"),
                                                 children |-> Arr(<<BatchLeaf("c")>>)])>>)])>>)
        /\ sent[i][1].body.args[2] =
              Arr(<<Obj([content |-> Str("a"),
                         children |-> Arr(<<BatchLeaf("b")>>)])>>)

\* One level of children, with properties, was sent as supplied.
C20_OneLevelKept ==
    \E i \in Slots :
        /\ BatchCall(i) /\ Len(sent[i]) = 1
        /\ raw[i].blocks =
              Arr(<<Obj([content |-> Str("a"),
                         properties |-> Obj([status |-> Str("todo")]),
                         children |-> Arr(<<BatchLeaf("b")>>)])>>)
        /\ sent[i][1].body.args[2] = raw[i].blocks


\* slot i ran logseq_list_pages on accepted parameters, and the remote
\* answered with a list
Listed(i) ==
    /\ Invoked(i) /\ accepted[i] /\ tool[i] = "logseq_list_pages"
    /\ EndedWell(i) /\ IsArr(Last(outcomes[i]).value)

\* The parameters of the listing in slot i, the documented defaults applied.
ListLimit(i) == IF "limit" \in DOMAIN raw[i] THEN raw[i].limit.num ELSE DEFAULT_PAGE_LIMIT
ListOffset(i) == IF "offset" \in DOMAIN raw[i] THEN raw[i].offset.num ELSE 0
ListJournalOnly(i) == "journal_only" \in DOMAIN raw[i] /\ raw[i].journal_only.bool

IsJournalPage(pg) == Get(pg, "journal?") = Bool(TRUE)
PageName(pg) == IF IsStr(Get(pg, "name")) THEN Get(pg, "name").str ELSE ""
InNamespace(pg, ns) == StartsWith(ToLowerCase(PageName(pg)), ToLowerCase(ns) \o "/")

\* The list `all` filtered by journal_only, then by the namespace ns when
\* byNamespace says the namespace filter applies.
FilteredPages(all, journalOnly, byNamespace, ns) ==
    LET journals == IF journalOnly THEN SelectSeq(all, IsJournalPage) ELSE all
    IN  IF byNamespace THEN SelectSeq(journals, LAMBDA pg : InNamespace(pg, ns))
        ELSE journals

\* The listing of the pages of F at positions offset .. offset+limit-1, with
\* the total, and the more-pages note exactly when offset + limit < |F|.
ExpectedListing(F, offset, limit) ==
    LET last == IF offset + limit < Len(F) THEN offset + limit ELSE Len(F)
        count == IF last > offset THEN last - offset ELSE 0
        shown == [k \in 1..count |-> formatPageSummary(F[offset + k])]
    IN  Join(<<"**Pages** (" \o ToString(count) \o " of " \o ToString(Len(F)) \o ")", "">>
             \o shown
             \o (IF offset + limit < Len(F)
                 THEN <<"", "_More pages available. Use offset="
                            \o ToString(offset + limit) \o " to see next batch._">>
                 ELSE <<>>),
             "\n")

\* C21 as stated: the result of logseq_list_pages is the listing of the list
\* filtered by journal_only and then by the namespace given, at positions
\* offset .. offset+limit-1, with total = |F| and the more-pages note exactly
\* when offset + limit < |F|; it is never a failure.
C21_ListingAsStated ==
    \A i \in Slots :
        Listed(i) =>
            LET F == FilteredPages(Last(outcomes[i]).value.arr, ListJournalOnly(i),
                                   "namespace" \in DOMAIN raw[i],
                                   IF "namespace" \in DOMAIN raw[i]
                                   THEN raw[i].namespace.str ELSE "")
            IN  result[i] = [isError |-> FALSE,
                             text |-> ExpectedListing(F, ListOffset(i), ListLimit(i))]

\* The text E, cut at the character budget as every success text is.
CutAtLimit(E) ==
    IF Len(E) <= CHARACTER_LIMIT THEN E
    ELSE SubSeq(E, 1, CHARACTER_LIMIT) \o TruncationNote(Len(E) - CHARACTER_LIMIT)

\* C21 (amended): the namespace filter applies when a non-empty namespace is
\* given, and the listing is cut at the character budget; a listing that fits
\* is the one the claim describes.
C21_Listing ==
    \A i \in Slots :
        Listed(i) =>
            LET byNamespace == "namespace" \in DOMAIN raw[i] /\ raw[i].namespace.str # ""
                F == FilteredPages(Last(outcomes[i]).value.arr, ListJournalOnly(i),
                                   byNamespace,
                                   IF byNamespace THEN raw[i].namespace.str ELSE "")
            IN  result[i] = [isError |-> FALSE,
                             text |-> CutAtLimit(ExpectedListing(F, ListOffset(i),
                                                                 ListLimit(i)))]

\* The second of three pages was listed, and offset 2 named as the next.
C21_Witness ==
    \E i \in Slots :
        /\ Listed(i) /\ ListOffset(i) = 1 /\ ListLimit(i) = 1
        /\ Len(Last(outcomes[i]).value.arr) = 3
        /\ ~ListJournalOnly(i) /\ "namespace" \notin DOMAIN raw[i]
        /\ result[i].text = "**Pages** (1 of 3)\n\n"
                            \o "- **Nov 5th, 2026** (uuid: u-jrnl) @@\n\n"
                            \o "_More pages available. Use offset=2 to see next batch._"

\* An offset past the end of the filtered list gave an empty listing.
C21_PastTheEnd ==
    \E i \in Slots :
        /\ Listed(i) /\ ListOffset(i) = 1 /\ ListJournalOnly(i)
        /\ Len(Last(outcomes[i]).value.arr) = 3
        /\ result[i] = [isError |-> FALSE, text |-> "**Pages** (0 of 1)\n"]


\* No name is registered twice.
DistinctNames(names) ==
    \A j, k \in DOMAIN names : names[j] = names[k] => j = k

\* The names registered are those of the five groups, and only a registered
\* tool is ever invoked.
RegistryOfGroups ==
    /\ Tools = PageTools \cup BlockTools \cup SearchTools \cup JournalTools \cup GraphTools
    /\ \A i \in Slots : Invoked(i) => tool[i] \in Tools

CreateCall(i) == Invoked(i) /\ accepted[i] /\ tool[i] = "logseq_create_page"

\* C23: in logseq_create_page the first request is logseq.Editor.createPage;
\* a second request is logseq.Editor.appendBlockInPage with [name, content],
\* sent only after createPage succeeded and only for a non-empty content;
\* after a failed createPage nothing more is sent; and the result is a success
\* only when every request sent has succeeded.
C23_CreateThenAppend ==
    \A i \in Slots :
        CreateCall(i) =>
            /\ Len(sent[i]) \in {1, 2}
            /\ sent[i][1].body.method = "logseq.Editor.createPage"
            /\ Len(sent[i]) = 2 =>
                  /\ sent[i][2].body.method = "logseq.Editor.appendBlockInPage"
                  /\ sent[i][2].body.args[1] = raw[i].name
                  /\ sent[i][2].body.args[2] = raw[i].content
                  /\ WithContent(i)
                  /\ Len(outcomes[i]) >= 1 /\ outcomes[i][1].ok
            /\ (Len(outcomes[i]) >= 1 /\ ~outcomes[i][1].ok) => Len(sent[i]) = 1
            /\ (Finished(i) /\ ~result[i].isError) =>
                  /\ Len(outcomes[i]) = Len(sent[i])
                  /\ \A k \in DOMAIN outcomes[i] : outcomes[i][k].ok

\* Once sent, a request stays the request it was: the append never comes to
\* stand before createPage.
C23_OrderKept ==
    [][\A i \in Slots :
          (CreateCall(i) /\ CreateCall(i)') =>
              /\ Len(sent'[i]) >= Len(sent[i])
              /\ SubSeq(sent'[i], 1, Len(sent[i])) = sent[i]]_vars

\* The page was created, the append failed, and the result is a failure.
C23_Witness ==
    \E i \in Slots :
        /\ CreateCall(i) /\ Finished(i) /\ WithContent(i)
        /\ Len(sent[i]) = 2 /\ Len(outcomes[i]) = 2
        /\ outcomes[i][1].ok /\ ~outcomes[i][2].ok
        /\ result[i].isError

\* createPage failed for a page with content, and nothing more was sent.
C23_CreateFailed ==
    \E i \in Slots :
        /\ CreateCall(i) /\ Finished(i) /\ WithContent(i)
        /\ Len(sent[i]) = 1 /\ ~outcomes[i][1].ok /\ result[i].isError


\* The remote methods that only read.
ReadingMethods ==
    {"logseq.Editor.getAllPages", "logseq.Editor.getPage",
     "logseq.Editor.getPageBlocksTree", "logseq.Editor.getPageLinkedReferences",
     "logseq.Editor.getBlock", "logseq.App.search", "logseq.App.getCurrentGraph",
     "logseq.Editor.getAllTags"}

\* The remote methods that change the graph.
MutatingMethods ==
    {"logseq.Editor.createPage", "logseq.Editor.createJournalPage",
     "logseq.Editor.deletePage", "logseq.Editor.renamePage",
     "logseq.Editor.insertBlock", "logseq.Editor.insertBatchBlock",
     "logseq.Editor.appendBlockInPage", "logseq.Editor.updateBlock",
     "logseq.Editor.removeBlock", "logseq.Editor.moveBlock",
     "logseq.Editor.upsertBlockProperty"}

\* C25: a tool annotated readOnlyHint: true sends only the reading methods,
\* whatever its input and the replies; a mutating method is sent only by a
\* tool annotated readOnlyHint: false; and the tools annotated true are the
\* eight reading tools.
C25_ReadOnlyTools ==
    /\ {t \in Tools : readOnlyHint(t)} =
          {"logseq_list_pages", "logseq_get_page", "logseq_get_page_content",
           "logseq_get_page_linked_references", "logseq_get_block", "logseq_search",
           "logseq_get_graph_info", "logseq_get_all_tags"}
    /\ \A i \in Slots : \A k \in DOMAIN sent[i] :
          LET method == sent[i][k].body.method
          IN  /\ readOnlyHint(tool[i]) => method \in ReadingMethods
              /\ method \in MutatingMethods => ~readOnlyHint(tool[i])
              /\ method \in ReadingMethods \cup MutatingMethods
                            \cup {"logseq.Editor.getBlockProperties"}

\* logseq_get_page_content has ended after reading the block tree, and nothing
\* else.
C25_Witness ==
    \E i \in Slots :
        /\ Finished(i) /\ accepted[i] /\ tool[i] = "logseq_get_page_content"
        /\ readOnlyHint(tool[i])
        /\ Len(sent[i]) = 1
        /\ sent[i][1].body.method = "logseq.Editor.getPageBlocksTree"

\* logseq_block_property, annotated readOnlyHint: false, has written.
C25_WriterWrote ==
    \E i \in Slots :
        /\ Finished(i) /\ tool[i] = "logseq_block_property" /\ ~readOnlyHint(tool[i])
        /\ Len(sent[i]) = 1
        /\ sent[i][1].body.method = "logseq.Editor.upsertBlockProperty"


\* The page lines of a listing.
PagesListed(text) == SelectSeq(SplitLines(text), LAMBDA line : StartsWith(line, "- **"))

RECURSIVE PagesOfBatches(_)
\* The page lines of the batches, one batch after the other.
PagesOfBatches(batches) ==
    IF Len(batches) = 0 THEN <<>>
    ELSE PagesListed(batches[1]) \o PagesOfBatches(Tail(batches))

\* The filtered list the caller pages through, and its page lines.
PagedList ==
    FilteredPages(probe.input.pages, probe.input.filters.journal_only.bool,
                  "namespace" \in DOMAIN probe.input.filters,
                  IF "namespace" \in DOMAIN probe.input.filters
                  THEN probe.input.filters.namespace.str ELSE "")
PagedLines == [k \in 1..Len(PagedList) |-> formatPageSummary(PagedList[k])]

\* The batches are full up to the last, and together they are the first pages
\* of the list, each once and in order.
InOrderSoFar(batches) ==
    /\ \A k \in 1..(Len(batches) - 1) : Len(PagesListed(batches[k])) = probe.input.limit
    /\ LET got == PagesOfBatches(batches)
       IN  Len(got) <= Len(PagedLines) /\ got = SubSeq(PagedLines, 1, Len(got))

\* C24 as stated: paging to the first result without the more-pages note
\* returns every page of the filtered list exactly once and in order, every
\* batch but the last holding exactly limit pages.
C24_CoveredOnceAsStated ==
    (probe.fn = "paging" /\ probe.done) =>
        /\ InOrderSoFar(probe.output)
        /\ PagesOfBatches(probe.output) = PagedLines

\* A batch that textResponse has cut.
CutBatch(text) == Len(text) > CHARACTER_LIMIT

\* C24 (amended): when no batch is longer than the character budget, paging
\* returns every page of the filtered list exactly once and in order, every
\* batch but the last holding exactly limit pages; a batch longer than the
\* budget is cut and carries no more-pages note, so paging stops at it, the
\* batches before it holding the pages before it, each once and in order.
C24_CoveredOnce ==
    (probe.fn = "paging" /\ probe.done) =>
        LET batches == probe.output
            n == Len(batches)
        IN  /\ n >= 1
            /\ \A k \in 1..(n - 1) : ~CutBatch(batches[k])
            /\ IF CutBatch(batches[n])
               THEN /\ InOrderSoFar(SubSeq(batches, 1, n - 1))
                    /\ Len(PagesOfBatches(SubSeq(batches, 1, n - 1)))
                          = (n - 1) * probe.input.limit
                    /\ (n - 1) * probe.input.limit < Len(PagedLines)
               ELSE /\ InOrderSoFar(batches)
                    /\ PagesOfBatches(batches) = PagedLines

\* A caller with limit 1 has paged through three pages in three batches.
C24_Witness ==
    /\ probe.fn = "paging" /\ probe.done
    /\ probe.input.limit = 1 /\ Len(PagedList) = 3
    /\ Len(probe.output) = 3
    /\ \A k \in 1..3 : ~CutBatch(probe.output[k])
    /\ PagesOfBatches(probe.output) = PagedLines

\* Paging stopped at a cut batch with pages of the list still to come.
C24_StoppedAtCut ==
    /\ probe.fn = "paging" /\ probe.done
    /\ CutBatch(probe.output[Len(probe.output)])
    /\ Len(probe.output) * probe.input.limit < Len(PagedList)

=============================================================================
